---- MODULE Spec2Model ----
(***************************************************************************)
(* A model of the anibridge Jellyfin library provider: the webhook parser  *)
(* (webhook.py), the client wrapper (client.py) and the provider           *)
(* (library.py).  Python strings are sequences of one-character strings,   *)
(* so that strip() and lower() are computed, not assumed.  Python values   *)
(* are tagged records: None, str, int, UUID.                               *)
(***************************************************************************)
EXTENDS Integers, Sequences, FiniteSets, TLC

VARIABLES
    server,     \* the Jellyfin server as the SDK shows it: users, views, folders, items
    client,     \* the fields of the JellyfinClient
    provider,   \* the fields of the JellyfinLibraryProvider
    call,       \* the operation the host has called, with its arguments
    result,     \* what that operation returned or raised
    queries     \* the get_items queries the operation sent to the server, in order

vars == <<server, client, provider, call, result, queries>>

----------------------------------------------------------------------------
(* Python values *)

PyNone == [t |-> "none"]
PyStr(s) == [t |-> "str", s |-> s]
PyInt(n) == [t |-> "int", n |-> n]
PyBool(b) == [t |-> "bool", b |-> b]
Uuid(n) == [t |-> "uuid", n |-> n]

IsNone(v) == v.t = "none"

UpperChars == <<"A", "B", "C", "D", "E", "F", "G", "H", "I", "J", "K", "L", "M",
                "N", "O", "P", "Q", "R", "S", "T", "U", "V", "W", "X", "Y", "Z">>
LowerChars == <<"a", "b", "c", "d", "e", "f", "g", "h", "i", "j", "k", "l", "m",
                "n", "o", "p", "q", "r", "s", "t", "u", "v", "w", "x", "y", "z">>
DigitChars == <<"0", "1", "2", "3", "4", "5", "6", "7", "8", "9">>
HexChars == DigitChars \o <<"a", "b", "c", "d", "e", "f">>

UpperSet == {UpperChars[i] : i \in 1..Len(UpperChars)}
LowerOfUpper ==
    [c \in UpperSet |-> LowerChars[CHOOSE i \in 1..Len(UpperChars) : UpperChars[i] = c]]

LowerChar(c) == IF c \in UpperSet THEN LowerOfUpper[c] ELSE c

\* str.lower()
Lower(s) == [i \in 1..Len(s) |-> LowerChar(s[i])]

RECURSIVE LStrip(_)
LStrip(s) == IF s # <<>> /\ Head(s) = " " THEN LStrip(Tail(s)) ELSE s

RECURSIVE RStrip(_)
RStrip(s) ==
    IF s # <<>> /\ s[Len(s)] = " " THEN RStrip(SubSeq(s, 1, Len(s) - 1)) ELSE s

\* str.strip()
Strip(s) == RStrip(LStrip(s))

\* str.startswith(prefix)
StartsWith(s, prefix) ==
    /\ Len(prefix) <= Len(s)
    /\ SubSeq(s, 1, Len(prefix)) = prefix

\* str(UUID): the canonical lower-case form
UuidStr(u) == <<"a", HexChars[u.n + 1]>>

\* UUID(text) accepts either letter case and raises ValueError for anything else
UuidParses(s) ==
    /\ Len(s) = 2
    /\ LowerChar(s[1]) = "a"
    /\ \E i \in 2..Len(HexChars) : HexChars[i] = LowerChar(s[2])

ParseUuid(s) ==
    Uuid((CHOOSE i \in 2..Len(HexChars) : HexChars[i] = LowerChar(s[2])) - 1)

\* str(value) of a payload value
StrOf(v) ==
    CASE v.t = "str" -> v.s
      [] v.t = "int" -> <<DigitChars[v.n + 1]>>
      [] v.t = "uuid" -> UuidStr(v)
      [] OTHER -> <<"N", "o", "n", "e">>

\* bool(value)
Truthy(v) ==
    CASE v.t = "none" -> FALSE
      [] v.t = "str" -> v.s # <<>>
      [] v.t = "int" -> v.n # 0
      [] v.t = "bool" -> v.b
      [] OTHER -> TRUE

\* a or b
PyOr(a, b) == IF Truthy(a) THEN a ELSE b

----------------------------------------------------------------------------
(* webhook.py *)

S_ItemAdded == <<"I", "t", "e", "m", "A", "d", "d", "e", "d">>
S_PlaybackStop == <<"P", "l", "a", "y", "b", "a", "c", "k", "S", "t", "o", "p">>
S_UserDataSaved == <<"U", "s", "e", "r", "D", "a", "t", "a", "S", "a", "v", "e", "d">>

\* class JellyfinWebhookNotificationType
JellyfinWebhookNotificationType == {S_ItemAdded, S_PlaybackStop, S_UserDataSaved}

K_notificationtype == <<"n", "o", "t", "i", "f", "i", "c", "a", "t", "i", "o", "n", "t", "y", "p", "e">>
K_userid == <<"u", "s", "e", "r", "i", "d">>
K_notificationusername == <<"n", "o", "t", "i", "f", "i", "c", "a", "t", "i", "o", "n", "u", "s", "e", "r", "n", "a", "m", "e">>
K_username == <<"u", "s", "e", "r", "n", "a", "m", "e">>
K_itemtype == <<"i", "t", "e", "m", "t", "y", "p", "e">>
K_itemid == <<"i", "t", "e", "m", "i", "d">>
K_seriesid == <<"s", "e", "r", "i", "e", "s", "i", "d">>
K_payload == <<"p", "a", "y", "l", "o", "a", "d">>
S_episode == <<"e", "p", "i", "s", "o", "d", "e">>
S_season == <<"s", "e", "a", "s", "o", "n">>
CT_multipart == <<"m", "u", "l", "t", "i", "p", "a", "r", "t", "/", "f", "o", "r", "m", "-", "d", "a", "t", "a">>
CT_urlencoded == <<"a", "p", "p", "l", "i", "c", "a", "t", "i", "o", "n", "/", "x", "-", "w", "w", "w", "-", "f", "o", "r", "m", "-", "u", "r", "l", "e", "n", "c", "o", "d", "e", "d">>

\* A mapping is a sequence of <<key, value>> pairs in insertion order.
\* dict(...).get(key): the value of the pair that holds the key, else None.
MapGet(m, key) ==
    IF \E i \in 1..Len(m) : m[i][1] = key
    THEN m[CHOOSE i \in 1..Len(m) : m[i][1] = key][2]
    ELSE PyNone

RECURSIVE MapPut(_, _, _)
\* d[key] = value: replaces the value in place, or appends a new pair
MapPut(m, key, value) ==
    IF m = <<>> THEN <<(<<key, value>>)>>
    ELSE IF Head(m)[1] = key THEN <<(<<key, value>>)>> \o Tail(m)
    ELSE <<Head(m)>> \o MapPut(Tail(m), key, value)

RECURSIVE LowerKeys(_, _)
LowerKeys(data, acc) ==
    IF data = <<>> THEN acc
    ELSE LowerKeys(Tail(data), MapPut(acc, Lower(Head(data)[1]), Head(data)[2]))

\* JellyfinWebhook.__init__: {str(key).lower(): value for key, value in data.items()}
WebhookInit(data) == LowerKeys(data, <<>>)

\* JellyfinWebhook._string_value
StringValue(wh, key) ==
    LET value == MapGet(wh, key)
    IN  IF IsNone(value) THEN PyNone
        ELSE LET text == Strip(StrOf(value))
             IN  IF text # <<>> THEN PyStr(text) ELSE PyNone

NotificationType(wh) ==
    LET value == StringValue(wh, K_notificationtype)
    IN  IF Truthy(value) THEN value ELSE PyNone

UserId(wh) ==
    LET value == StringValue(wh, K_userid)
    IN  IF Truthy(value) THEN value ELSE PyNone

Username(wh) ==
    PyOr(StringValue(wh, K_notificationusername), StringValue(wh, K_username))

ItemType(wh) == StringValue(wh, K_itemtype)

ItemId(wh) ==
    LET value == StringValue(wh, K_itemid)
    IN  IF Truthy(value) THEN value ELSE PyNone

SeriesId(wh) ==
    LET value == StringValue(wh, K_seriesid)
    IN  IF Truthy(value) THEN value ELSE PyNone

\* top_level_item_id that compares the item type as it is spelled
TopLevelItemIdCaseSensitive(wh) ==
    LET item_type == PyOr(ItemType(wh), PyStr(<<>>)).s
    IN  IF item_type \in {S_episode, S_season} /\ Truthy(SeriesId(wh))
        THEN SeriesId(wh)
        ELSE PyOr(ItemId(wh), SeriesId(wh))

TopLevelItemId(wh) ==
    LET item_type == Lower(PyOr(ItemType(wh), PyStr(<<>>)).s)
    IN  IF item_type \in {S_episode, S_season} /\ Truthy(SeriesId(wh))
        THEN SeriesId(wh)
        ELSE PyOr(ItemId(wh), SeriesId(wh))

----------------------------------------------------------------------------
(* Outcomes of a call *)

Return(v) == [kind |-> "return", value |-> v]
Raise(e) == [kind |-> "raise", exc |-> e]
NoResult == [kind |-> "none"]
NoCall == [op |-> "none"]

----------------------------------------------------------------------------
(* JSON.  A JSON text is `enc` layers of JSON string encoding around a core *)
(* that is an object, some other value (a number) or not JSON at all.       *)

JsonText(enc, core) == [enc |-> enc, core |-> core]
JsonObject(data) == [k |-> "object", data |-> data]
JsonNumber == [k |-> "number"]
JsonInvalid == [k |-> "invalid"]

\* a Python str whose content is the JSON text j
PyJsonStr(j) == [t |-> "jstr", j |-> j]
PyDict(data) == [t |-> "dict", data |-> data]

IsStr(v) == v.t \in {"str", "jstr"}

\* the content of a Python str read as JSON text: words of letters are not JSON
TextOf(v) == IF v.t = "jstr" THEN v.j ELSE JsonText(0, JsonInvalid)
IsMapping(v) == v.t = "dict"

\* json.loads(text): one layer is decoded; JSONDecodeError for what is not JSON
JsonLoads(j) ==
    IF j.enc > 0 THEN Return(PyJsonStr(JsonText(j.enc - 1, j.core)))
    ELSE CASE j.core.k = "object" -> Return(PyDict(j.core.data))
           [] j.core.k = "number" -> Return(PyInt(1))
           [] OTHER -> Raise("JSONDecodeError")

\* starlette FormData.get(key): the last field of that name, else None
FormGet(form, key) ==
    IF \E i \in 1..Len(form) : form[i][1] = key
    THEN form[CHOOSE i \in 1..Len(form) :
                /\ form[i][1] = key
                /\ \A j \in (i + 1)..Len(form) : form[j][1] # key][2]
    ELSE PyNone

RECURSIVE FormItems(_, _)
\* {str(key): value for key, value in form.items()}
FormItems(form, acc) ==
    IF form = <<>> THEN acc
    ELSE FormItems(Tail(form), MapPut(acc, Head(form)[1], Head(form)[2]))

RECURSIVE FromDecodedRepeatedly(_)
\* from_request that keeps decoding while the value is a str
FromDecodedRepeatedly(data) ==
    IF IsStr(data)
    THEN LET again == JsonLoads(TextOf(data))
         IN  IF again.kind = "raise" THEN Raise("ValueError")
             ELSE FromDecodedRepeatedly(again.value)
    ELSE IF ~IsMapping(data) THEN Raise("ValueError")
    ELSE Return(WebhookInit(data.data))

\* from_request, lines 99-108: a str is decoded once more, then the Mapping test
FromDecoded(data) ==
    LET again == IF IsStr(data) THEN JsonLoads(TextOf(data)) ELSE Return(data)
    IN  IF again.kind = "raise" THEN Raise("ValueError")
        ELSE IF ~IsMapping(again.value) THEN Raise("ValueError")
        ELSE Return(WebhookInit(again.value.data))

\* JellyfinWebhook.from_request
FromRequest(request) ==
    LET content_type ==
            Lower(IF IsNone(request.content_type) THEN <<>> ELSE request.content_type.s)
    IN  IF StartsWith(content_type, CT_multipart) \/ StartsWith(content_type, CT_urlencoded)
        THEN LET payload_raw == FormGet(request.form, K_payload)
             IN  IF Truthy(payload_raw)
                 THEN LET loaded == JsonLoads(TextOf(payload_raw))
                      IN  IF loaded.kind = "raise" THEN Raise("ValueError")
                          ELSE FromDecoded(loaded.value)
                 ELSE FromDecoded(PyDict(FormItems(request.form, <<>>)))
        ELSE LET loaded == JsonLoads(request.body)
             IN  IF loaded.kind = "raise" THEN Raise("ValueError")
                 ELSE FromDecoded(loaded.value)

----------------------------------------------------------------------------
(* library.py: parse_webhook *)

LibraryUser(key, title) == [t |-> "user", key |-> key, title |-> title]

WebhookUserMatches(user, wh) ==
    LET user_id_match ==
            /\ Truthy(UserId(wh))
            /\ Lower(UserId(wh).s) = Lower(user.key)
        user_name_match ==
            /\ Truthy(Username(wh))
            /\ user.title # <<>>
            /\ Lower(Username(wh).s) = Lower(user.title)
    IN  user_id_match \/ user_name_match

Ignored == Return([sync |-> FALSE, keys |-> <<>>])

\* parse_webhook with one step changed; `variant` names the change
ParseWebhookVariant(p, request, variant) ==
    LET parsed == FromRequest(request)
    IN  IF parsed.kind = "raise" THEN parsed
        ELSE LET payload == parsed.value
                 top == TopLevelItemId(payload)
                 nt == NotificationType(payload)
                 known == Truthy(nt) /\ nt.s \in JellyfinWebhookNotificationType
                 user_checked ==
                     IF variant = "user check on every event" THEN TRUE
                     ELSE nt.s # S_ItemAdded
                 matches ==
                     IF variant = "case-sensitive user match"
                     THEN \/ Truthy(UserId(payload)) /\ UserId(payload).s = p.user.key
                          \/ Truthy(Username(payload)) /\ Username(payload).s = p.user.title
                     ELSE WebhookUserMatches(p.user, payload)
             IN  IF ~Truthy(nt) THEN Raise("ValueError")
                 ELSE IF variant = "event type before item id" /\ ~known THEN Ignored
                 ELSE IF ~Truthy(top) THEN Raise("ValueError")
                 ELSE IF variant # "no event filter" /\ ~known THEN Ignored
                 ELSE IF user_checked /\ IsNone(p.user) THEN Ignored
                 ELSE IF user_checked /\ ~matches THEN Ignored
                 ELSE Return([sync |-> TRUE, keys |-> <<top.s>>])

ParseWebhookNoEventFilter(p, request) ==
    ParseWebhookVariant(p, request, "no event filter")

ParseWebhookUserCheckOnEveryEvent(p, request) ==
    ParseWebhookVariant(p, request, "user check on every event")

ParseWebhookCaseSensitiveUser(p, request) ==
    ParseWebhookVariant(p, request, "case-sensitive user match")

ParseWebhookEventTypeFirst(p, request) ==
    ParseWebhookVariant(p, request, "event type before item id")

\* JellyfinLibraryProvider.parse_webhook
ParseWebhookResult(p, request) ==
    LET parsed == FromRequest(request)
    IN  IF parsed.kind = "raise" THEN parsed
        ELSE LET payload == parsed.value
                 sync_events == {S_ItemAdded, S_PlaybackStop, S_UserDataSaved}
             IN  IF ~Truthy(NotificationType(payload)) THEN Raise("ValueError")
                 ELSE IF ~Truthy(TopLevelItemId(payload)) THEN Raise("ValueError")
                 ELSE IF NotificationType(payload).s \notin JellyfinWebhookNotificationType
                      THEN Ignored
                 ELSE IF NotificationType(payload).s \notin sync_events THEN Ignored
                 ELSE IF /\ NotificationType(payload).s # S_ItemAdded
                         /\ IsNone(p.user)
                      THEN Ignored
                 ELSE IF /\ NotificationType(payload).s # S_ItemAdded
                         /\ ~WebhookUserMatches(p.user, payload)
                      THEN Ignored
                 ELSE Return([sync |-> TRUE, keys |-> <<TopLevelItemId(payload).s>>])

----------------------------------------------------------------------------
(* client.py: construction, initialize, close *)

PyList(items) == [t |-> "list", items |-> items]

\* `value or []` of an optional list
ListOrEmpty(v) == IF IsNone(v) THEN <<>> ELSE v.items

\* JellyfinClient.__init__
ClientNew(user, section_filter, genre_filter) ==
    [ user |-> user,
      section_filter |-> {Lower(value) : value \in section_filter},
      genre_filter |-> {Lower(value) : value \in genre_filter},
      api |-> FALSE,
      user_id |-> PyNone,
      user_name |-> PyNone,
      sections |-> <<>>,
      fetchers |-> <<>> ]

\* JellyfinClient._configure_client: the seven API handles are set together
ConfigureClient(c) == [c EXCEPT !.api = TRUE]

RECURSIVE FirstMatchingUser(_, _)
FirstMatchingUser(users, target) ==
    IF users = <<>> THEN PyNone
    ELSE IF Lower(StrOf(PyOr(Head(users).id, PyStr(<<>>)))) = Lower(target) THEN Head(users)
    ELSE IF Lower(StrOf(PyOr(Head(users).name, PyStr(<<>>)))) = Lower(target) THEN Head(users)
    ELSE FirstMatchingUser(Tail(users), target)

\* _resolve_user without the strip() of the configured value
ResolveUserUntrimmed(c, users) ==
    IF ~c.api THEN Raise("RuntimeError")
    ELSE IF Strip(c.user) = <<>> THEN Raise("ValueError")
    ELSE IF IsNone(FirstMatchingUser(users, c.user)) THEN Raise("ValueError")
    ELSE Return(FirstMatchingUser(users, c.user))

\* JellyfinClient._resolve_user
ResolveUser(c, users) ==
    IF ~c.api THEN Raise("RuntimeError")
    ELSE LET target == Strip(c.user)
         IN  IF target = <<>> THEN Raise("ValueError")
             ELSE IF IsNone(FirstMatchingUser(users, target)) THEN Raise("ValueError")
             ELSE Return(FirstMatchingUser(users, target))

RECURSIVE KeepSectionsOfAnyType(_, _)
\* _load_sections without its collection type test
KeepSectionsOfAnyType(c, items) ==
    IF items = <<>> THEN <<>>
    ELSE IF /\ c.section_filter # {}
            /\ Lower(StrOf(PyOr(Head(items).name, PyStr(<<>>)))) \notin c.section_filter
         THEN KeepSectionsOfAnyType(c, Tail(items))
    ELSE <<Head(items)>> \o KeepSectionsOfAnyType(c, Tail(items))

RECURSIVE KeepSections(_, _)
KeepSections(c, items) ==
    IF items = <<>> THEN <<>>
    ELSE LET item == Head(items)
             rest == KeepSections(c, Tail(items))
         IN  IF item.collection_type \notin {"movies", "tvshows"} THEN rest
             ELSE IF /\ c.section_filter # {}
                     /\ Lower(StrOf(PyOr(item.name, PyStr(<<>>)))) \notin c.section_filter
                  THEN rest
             ELSE <<item>> \o rest

\* JellyfinClient._load_sections
LoadSections(c, views) ==
    IF ~c.api THEN Raise("RuntimeError")
    ELSE IF IsNone(c.user_id) THEN Raise("RuntimeError")
    ELSE Return(KeepSections(c, views))

RECURSIVE FirstOrdered(_, _)
\* lines 462-468: the first ordered fetcher that is non-empty and enabled
FirstOrdered(ordered, enabled) ==
    IF ordered = <<>> THEN ""
    ELSE IF Head(ordered) = "" THEN FirstOrdered(Tail(ordered), enabled)
    ELSE IF /\ enabled # <<>>
            /\ \A i \in 1..Len(enabled) : enabled[i] # Head(ordered)
         THEN FirstOrdered(Tail(ordered), enabled)
    ELSE Head(ordered)

\* the first enabled fetcher taken without a look at whether it is empty
FirstEntry(fetchers) ==
    IF fetchers = <<>> THEN "" ELSE Head(fetchers)

RECURSIVE FirstNonEmpty(_)
\* lines 470-473
FirstNonEmpty(fetchers) ==
    IF fetchers = <<>> THEN ""
    ELSE IF Head(fetchers) # "" THEN Head(fetchers)
    ELSE FirstNonEmpty(Tail(fetchers))

\* lines 457-473: the fetcher one Series type option yields, "" for none
OptionFetcher(option) ==
    LET ordered_fetchers == ListOrEmpty(option.metadata_fetcher_order)
        enabled_fetchers == ListOrEmpty(option.metadata_fetchers)
    IN  IF ordered_fetchers # <<>>
        THEN FirstOrdered(ordered_fetchers, enabled_fetchers)
        ELSE FirstNonEmpty(enabled_fetchers)

RECURSIVE FolderFetcher(_)
\* lines 452-476: the first Series option that yields a fetcher decides
FolderFetcher(type_options) ==
    IF type_options = <<>> THEN ""
    ELSE IF Head(type_options).type # "Series" THEN FolderFetcher(Tail(type_options))
    ELSE IF OptionFetcher(Head(type_options)) # "" THEN OptionFetcher(Head(type_options))
    ELSE FolderFetcher(Tail(type_options))

RECURSIVE LoadFolders(_, _)
LoadFolders(folders, acc) ==
    IF folders = <<>> THEN Return(acc)
    ELSE LET folder == Head(folders)
             id_text == StrOf(PyOr(folder.item_id, PyStr(<<>>)))
             type_options ==
                 IF IsNone(folder.library_options) THEN <<>>
                 ELSE ListOrEmpty(folder.library_options.type_options)
         IN  IF ~UuidParses(id_text) THEN Raise("ValueError")
             ELSE IF folder.collection_type # "tvshows" THEN LoadFolders(Tail(folders), acc)
             ELSE IF type_options = <<>> THEN LoadFolders(Tail(folders), acc)
             ELSE IF FolderFetcher(type_options) = "" THEN LoadFolders(Tail(folders), acc)
             ELSE LoadFolders(Tail(folders),
                              MapPut(acc, UuidStr(ParseUuid(id_text)),
                                     FolderFetcher(type_options)))

\* JellyfinClient._load_show_metadata_fetchers
LoadShowMetadataFetchers(c, folders) ==
    IF ~c.api THEN Raise("RuntimeError") ELSE LoadFolders(folders, <<>>)

\* What a call leaves behind: the client after it and how it ended
Step(c, outcome) == [client |-> c, outcome |-> outcome]

\* initialize, lines 120-122: the fetchers are stored once the folders are read
FetchersLoaded(c, fetchers) ==
    IF fetchers.kind = "raise" THEN Step(c, fetchers)
    ELSE Step([c EXCEPT !.fetchers = fetchers.value], Return(PyNone))

\* initialize, lines 120-122
SectionsLoaded(c, srv, fault) ==
    FetchersLoaded(c, IF fault = "get_virtual_folders" THEN Raise("ApiException")
                      ELSE LoadShowMetadataFetchers(c, srv.folders))

\* initialize, line 119: the sections are stored once the views are read
SectionsStored(c, sections, srv, fault) ==
    IF sections.kind = "raise" THEN Step(c, sections)
    ELSE SectionsLoaded([c EXCEPT !.sections = sections.value], srv, fault)

\* initialize, lines 119-122
UserStored(c, srv, fault) ==
    SectionsStored(c, IF fault = "get_user_views" THEN Raise("ApiException")
                      ELSE LoadSections(c, srv.views),
                   srv, fault)

\* initialize, lines 117-118: the resolved user's id and name are stored
UserResolved(c, user, srv, fault) ==
    IF user.kind = "raise" THEN Step(c, user)
    ELSE UserStored([c EXCEPT !.user_id = user.value.id,
                              !.user_name = PyOr(user.value.name,
                                                 PyStr(StrOf(user.value.id)))],
                    srv, fault)

\* initialize, lines 115-122
Configured(c, srv, fault) ==
    UserResolved(c, IF fault = "get_users" THEN Raise("ApiException")
                    ELSE ResolveUser(c, srv.users),
                 srv, fault)

\* JellyfinClient.initialize.  `fault` names the SDK call that fails with a
\* connection error, "none" when the server answers every call.
ClientInitialize(c, srv, fault) ==
    IF fault = "configure" THEN Step(c, Raise("PackageNotFoundError"))
    ELSE Configured(ConfigureClient(c), srv, fault)

\* JellyfinClient.close
ClientClose(c) ==
    [c EXCEPT !.api = FALSE, !.user_id = PyNone, !.user_name = PyNone,
              !.sections = <<>>, !.fetchers = <<>>]

\* JellyfinClient.user_id
ClientUserId(c) ==
    IF IsNone(c.user_id) THEN Raise("RuntimeError") ELSE Return(StrOf(c.user_id))

\* JellyfinClient.user_name
ClientUserName(c) ==
    IF IsNone(c.user_id) \/ IsNone(c.user_name) THEN Raise("RuntimeError")
    ELSE Return(c.user_name.s)

\* JellyfinClient.show_metadata_fetcher_for_section: "" stands for None
ShowMetadataFetcherForSection(c, section_id) ==
    IF \E i \in 1..Len(c.fetchers) : c.fetchers[i][1] = section_id
    THEN c.fetchers[CHOOSE i \in 1..Len(c.fetchers) : c.fetchers[i][1] = section_id][2]
    ELSE ""

----------------------------------------------------------------------------
(* client.py: list_section_items *)

\* ItemsApi.get_items(**query) as the client calls it
Query(user_id, parent_id, include_item_types, min_date_last_saved, genres, ids) ==
    [ user_id |-> user_id,
      parent_id |-> parent_id,
      include_item_types |-> include_item_types,
      min_date_last_saved |-> min_date_last_saved,
      genres |-> genres,
      ids |-> ids,
      is_played |-> PyNone ]

PySet(members) == [t |-> "set", members |-> members]

\* the item lies below the folder, directly or through its series
Under(srv, item, parent_id) ==
    \/ item.parent_id = parent_id
    \/ \E i \in 1..Len(srv.items) :
          /\ srv.items[i].id = item.parent_id
          /\ srv.items[i].parent_id = parent_id

GenreListed(item, genres) ==
    \E i \in 1..Len(item.genres) : Lower(item.genres[i]) \in genres

ServerMatches(srv, item, query) ==
    /\ item.type \in query.include_item_types
    /\ Under(srv, item, query.parent_id)
    /\ IsNone(query.ids) \/ \E i \in 1..Len(query.ids.items) : query.ids.items[i] = item.id
    /\ srv.filters =>
          /\ \/ IsNone(query.min_date_last_saved)
             \/ /\ ~IsNone(item.date_last_saved)
                /\ item.date_last_saved.n >= query.min_date_last_saved.n
          /\ IsNone(query.genres) \/ GenreListed(item, query.genres.members)

RECURSIVE ServerSelect(_, _, _)
ServerSelect(srv, items, query) ==
    IF items = <<>> THEN <<>>
    ELSE (IF ServerMatches(srv, Head(items), query) THEN <<Head(items)>> ELSE <<>>)
             \o ServerSelect(srv, Tail(items), query)

\* The server's answer to get_items: the items of the wanted types below the
\* parent, restricted to ids when given.  A server with `filters` also applies
\* min_date_last_saved and genres; the doubles of the tests do not.
\* `failing` holds the parents whose query ends in a connection error.
ServerGetItems(srv, query, failing) ==
    IF query.parent_id \in failing THEN Raise("ApiException")
    ELSE Return(ServerSelect(srv, srv.items, query))

RECURSIVE ParsedIds(_)
\* _fetch_section_items, lines 401-406: keys that are no UUID are skipped
ParsedIds(keys) ==
    IF keys = <<>> THEN <<>>
    ELSE (IF UuidParses(StrOf(Head(keys))) THEN <<ParseUuid(StrOf(Head(keys)))>> ELSE <<>>)
             \o ParsedIds(Tail(keys))

RECURSIVE GenreFiltered(_, _)
GenreFiltered(c, items) ==
    IF items = <<>> THEN <<>>
    ELSE (IF GenreListed(Head(items), c.genre_filter) THEN <<Head(items)>> ELSE <<>>)
             \o GenreFiltered(c, Tail(items))

\* the query _fetch_section_items sends, lines 390-421
SectionQuery(c, section, min_last_modified, keys) ==
    Query(c.user_id, section.id,
          IF section.collection_type = "movies" THEN {"Movie"} ELSE {"Series"},
          min_last_modified,
          IF c.genre_filter # {} THEN PySet(c.genre_filter) ELSE PyNone,
          IF ~IsNone(keys) /\ ParsedIds(keys.items) # <<>>
          THEN PyList(ParsedIds(keys.items)) ELSE PyNone)

\* what a step of list_section_items leaves: its outcome and the queries sent
Sent(outcome, sent) == [outcome |-> outcome, queries |-> sent]

\* JellyfinClient._fetch_section_items
FetchSectionItems(c, srv, section, min_last_modified, require_watched, keys, failing) ==
    IF ~c.api THEN Sent(Raise("RuntimeError"), <<>>)
    ELSE IF IsNone(c.user_id) THEN Sent(Raise("RuntimeError"), <<>>)
    ELSE LET query == SectionQuery(c, section, min_last_modified, keys)
             response == ServerGetItems(srv, query, failing)
         IN  IF response.kind = "raise" THEN Sent(response, <<query>>)
             ELSE IF c.genre_filter = {} THEN Sent(response, <<query>>)
             ELSE Sent(Return(GenreFiltered(c, response.value)), <<query>>)

\* JellyfinClient.list_show_episodes
ListShowEpisodes(c, srv, show_id, season_id, failing) ==
    IF ~c.api THEN Sent(Raise("RuntimeError"), <<>>)
    ELSE IF IsNone(c.user_id) THEN Sent(Raise("RuntimeError"), <<>>)
    ELSE LET query == Query(c.user_id, PyOr(season_id, show_id), {"Episode"},
                            PyNone, PyNone, PyNone)
         IN  Sent(ServerGetItems(srv, query, failing), <<query>>)

\* _has_user_activity without the favorite flag
HasUserActivityPlaybackOnly(user_data) ==
    IF IsNone(user_data) THEN FALSE
    ELSE \/ user_data.played
         \/ user_data.play_count # 0
         \/ user_data.playback_position_ticks # 0

\* JellyfinClient._has_user_activity
HasUserActivity(user_data) ==
    IF IsNone(user_data) THEN FALSE
    ELSE \/ user_data.played
         \/ user_data.play_count # 0
         \/ user_data.playback_position_ticks # 0
         \/ user_data.is_favorite

\* JellyfinClient._item_has_user_activity: the answer and the queries it sent
ItemHasUserActivity(c, srv, item, section_collection_type, failing) ==
    IF HasUserActivity(item.user_data) THEN Sent(TRUE, <<>>)
    ELSE IF \/ section_collection_type # "tvshows"
            \/ item.type # "Series"
            \/ IsNone(item.id)
         THEN Sent(FALSE, <<>>)
    ELSE LET episodes == ListShowEpisodes(c, srv, item.id, PyNone, failing)
         IN  IF episodes.outcome.kind = "raise" THEN Sent(FALSE, episodes.queries)
             ELSE Sent(\E i \in 1..Len(episodes.outcome.value) :
                           HasUserActivity(episodes.outcome.value[i].user_data),
                       episodes.queries)

RECURSIVE WatchedOnly(_, _, _, _, _)
\* list_section_items, lines 180-188
WatchedOnly(c, srv, items, section, failing) ==
    IF items = <<>> THEN Sent(<<>>, <<>>)
    ELSE LET first == ItemHasUserActivity(c, srv, Head(items), section.collection_type,
                                          failing)
             rest == WatchedOnly(c, srv, Tail(items), section, failing)
         IN  Sent((IF first.outcome THEN <<Head(items)>> ELSE <<>>) \o rest.outcome,
                  first.queries \o rest.queries)

RECURSIVE KeyedOnly(_, _)
\* list_section_items, lines 190-192: item.id in set(keys)
KeyedOnly(items, allowed) ==
    IF items = <<>> THEN <<>>
    ELSE (IF Head(items).id \in allowed THEN <<Head(items)>> ELSE <<>>)
             \o KeyedOnly(Tail(items), allowed)

\* JellyfinClient.list_section_items
ListSectionItemsResult(c, srv, section, min_last_modified, require_watched, keys, failing) ==
    LET fetched == FetchSectionItems(c, srv, section, min_last_modified, require_watched,
                                     keys, failing)
    IN  IF fetched.outcome.kind = "raise" THEN fetched
        ELSE LET watched ==
                     IF require_watched
                     THEN WatchedOnly(c, srv, fetched.outcome.value, section, failing)
                     ELSE Sent(fetched.outcome.value, <<>>)
                 filtered ==
                     IF ~IsNone(keys)
                     THEN KeyedOnly(watched.outcome,
                                    {keys.items[i] : i \in 1..Len(keys.items)})
                     ELSE watched.outcome
             IN  Sent(Return(filtered), fetched.queries \o watched.queries)

----------------------------------------------------------------------------
(* library.py: construction, initialize, close *)

\* _STRICT_FETCHER_TO_PROVIDER.get(fetcher): "" stands for None
StrictFetcherToProvider(fetcher) ==
    CASE fetcher = "AniDB" -> "anidb"
      [] fetcher = "AniList" -> "anilist"
      [] fetcher = "TheTVDB" -> "tvdb_show"
      [] fetcher = "TheMovieDb" -> "tmdb_show"
      [] fetcher = "IMDb" -> "imdb_show"
      [] OTHER -> ""

\* JellyfinLibrarySection.__init__ (the collection type's value is lower case)
LibrarySection(item) ==
    [ key |-> StrOf(item.id),
      title |-> StrOf(item.name),
      media_kind |-> IF item.collection_type = "tvshows" THEN "SHOW" ELSE "MOVIE",
      section |-> item ]

\* JellyfinLibraryProvider.__init__ after its configuration check; the
\* configuration is a mapping, and besides the keys of the connection it may
\* hold "strict": bool(config.get("strict") or True)
ProviderNew(config) ==
    [ config |-> config,
      strict |-> Truthy(PyOr(MapGet(config, "strict"), PyBool(TRUE))),
      user |-> PyNone,
      sections |-> <<>>,
      section_map |-> <<>>,
      strict_map |-> <<>> ]

RECURSIVE WrapSections(_)
WrapSections(raw) ==
    IF raw = <<>> THEN <<>> ELSE <<LibrarySection(Head(raw))>> \o WrapSections(Tail(raw))

RECURSIVE SectionMapOf(_, _)
SectionMapOf(sections, acc) ==
    IF sections = <<>> THEN acc
    ELSE SectionMapOf(Tail(sections), MapPut(acc, Head(sections).key, Head(sections)))

\* _build_sections without the clear() of line 603: the map keeps its entries
BuildSectionsKeepingMap(p, c) ==
    [p EXCEPT !.sections = WrapSections(c.sections),
              !.section_map = SectionMapOf(WrapSections(c.sections), p.section_map)]

\* JellyfinLibraryProvider._build_sections: the section map is rebuilt with the list
BuildSections(p, c) ==
    [p EXCEPT !.sections = WrapSections(c.sections),
              !.section_map = SectionMapOf(WrapSections(c.sections), <<>>)]

RECURSIVE StrictMapOf(_, _, _)
\* initialize, lines 470-479
StrictMapOf(c, sections, acc) ==
    IF sections = <<>> THEN acc
    ELSE LET section == Head(sections)
             metadata_fetcher == ShowMetadataFetcherForSection(c, section.key)
         IN  IF section.media_kind # "SHOW" THEN StrictMapOf(c, Tail(sections), acc)
             ELSE IF metadata_fetcher = "" THEN StrictMapOf(c, Tail(sections), acc)
             ELSE IF StrictFetcherToProvider(metadata_fetcher) = ""
                  THEN StrictMapOf(c, Tail(sections), acc)
             ELSE StrictMapOf(c, Tail(sections),
                              MapPut(acc, section.key,
                                     StrictFetcherToProvider(metadata_fetcher)))

\* initialize, lines 468-479: the strict map of the sections just built
SectionsBuilt(p, c) ==
    [provider |-> [p EXCEPT !.strict_map =
                       IF p.strict THEN StrictMapOf(c, p.sections, <<>>) ELSE <<>>],
     client |-> c,
     outcome |-> Return(PyNone)]

\* initialize, lines 463-479, after the client has initialized
ClientInitialized(p, ci) ==
    IF ci.outcome.kind = "raise"
    THEN [provider |-> p, client |-> ci.client, outcome |-> ci.outcome]
    ELSE SectionsBuilt(
             BuildSections([p EXCEPT !.user =
                                LibraryUser(ClientUserId(ci.client).value,
                                            ClientUserName(ci.client).value)],
                           ci.client),
             ci.client)

\* JellyfinLibraryProvider.initialize
ProviderInitialize(p, c, srv, fault) ==
    ClientInitialized(p, ClientInitialize(c, srv, fault))

\* JellyfinLibraryProvider.close: the user is not among the fields it clears
ProviderClose(p) ==
    [p EXCEPT !.sections = <<>>, !.section_map = <<>>, !.strict_map = <<>>]

----------------------------------------------------------------------------
(* The server and the configurations of the webhook specification *)

FetcherOption(type, order, enabled) ==
    [type |-> type, metadata_fetcher_order |-> order, metadata_fetchers |-> enabled]

LibraryOptions(type_options) == [t |-> "options", type_options |-> type_options]

DefaultUsers ==
    << [t |-> "UserDto", id |-> Uuid(1), name |-> PyStr(<<"B", "o", "b">>)],
       [t |-> "UserDto", id |-> Uuid(2), name |-> PyNone] >>

DefaultViews ==
    << [id |-> Uuid(3), name |-> PyStr(<<"S", "h", "o", "w", "s">>), collection_type |-> "tvshows"],
       [id |-> Uuid(4), name |-> PyStr(<<"M", "o", "v", "i", "e", "s">>), collection_type |-> "movies"],
       [id |-> Uuid(5), name |-> PyStr(<<"M", "u", "s", "i", "c">>), collection_type |-> "music"] >>

DefaultFolders ==
    << [ item_id |-> PyStr(<<"A", "3">>), collection_type |-> "tvshows",
         library_options |->
             LibraryOptions(PyList(<<FetcherOption("Series",
                                                   PyList(<<"AniDB", "AniList">>),
                                                   PyList(<<"AniList">>))>>)) ],
       [ item_id |-> PyStr(<<"a", "4">>), collection_type |-> "movies",
         library_options |-> PyNone ] >>

DefaultServer ==
    [users |-> DefaultUsers, views |-> DefaultViews, folders |-> DefaultFolders,
     items |-> <<>>, filters |-> TRUE]

\* the configured user: a name in another case with blanks around it, the id
\* of the user that has no name, and a user the server does not know
ConfigUsers == { <<" ", "B", "O", "B", " ">>, <<"A", "2">>, <<"e", "v", "e">> }

Faults == {"none", "configure", "get_users", "get_user_views", "get_virtual_folders"}

----------------------------------------------------------------------------
(* Webhook payloads and requests the host can hand over *)

Absent == [t |-> "absent"]

LowerSet == {LowerChars[i] : i \in 1..Len(LowerChars)}
UpperOfLower ==
    [c \in LowerSet |-> UpperChars[CHOOSE i \in 1..Len(LowerChars) : LowerChars[i] = c]]

UpperChar(c) == IF c \in LowerSet THEN UpperOfLower[c] ELSE c

KeyIn(style, key) ==
    CASE style = "Capital" -> <<UpperChar(Head(key))>> \o Tail(key)
      [] style = "UPPER" -> [i \in 1..Len(key) |-> UpperChar(key[i])]
      [] OTHER -> key

Field(style, key, value) ==
    IF value.t = "absent" THEN <<>> ELSE <<(<<KeyIn(style, key), value>>)>>

MakePayload(style, nt, it, iid, sid, uid, nun, un) ==
    Field(style, K_notificationtype, nt) \o Field(style, K_itemtype, it)
        \o Field(style, K_itemid, iid) \o Field(style, K_seriesid, sid)
        \o Field(style, K_userid, uid) \o Field(style, K_notificationusername, nun)
        \o Field(style, K_username, un)

Blank == PyStr(<<" ">>)

NotificationTypeValues ==
    { Absent, PyNone, Blank, PyStr(S_ItemAdded), PyStr(<<" ">> \o S_PlaybackStop \o <<" ">>),
      PyStr(S_UserDataSaved), PyStr(Lower(S_ItemAdded)),
      PyStr(<<"P", "l", "a", "y", "b", "a", "c", "k", "S", "t", "a", "r", "t">>) }

ItemTypeValues ==
    { Absent, PyStr(<<"E", "p", "i", "s", "o", "d", "e">>),
      PyStr(<<"S", "E", "A", "S", "O", "N", " ">>), PyStr(<<"M", "o", "v", "i", "e">>) }

ItemIdValues == { Absent, Blank, PyStr(<<"i", "1">>), PyInt(7) }
SeriesIdValues == { Absent, PyStr(<<>>), PyStr(<<"s", "1">>) }
UserIdValues == { Absent, PyStr(<<"A", "1">>), PyStr(<<"a", "2", " ">>), PyStr(<<"a", "9">>) }
NotificationUsernameValues == { Absent, Blank, PyStr(<<"B", "O", "B">>) }
UsernameValues == { Absent, PyStr(<<"b", "o", "b">>), PyStr(<<"A", "2">>), PyStr(<<"e", "v", "e">>) }

\* payloads that vary the event and the item, for one user
EventPayloads(style) ==
    { MakePayload(style, nt, it, iid, sid, PyStr(<<"A", "1">>), Absent, Absent) :
        nt \in NotificationTypeValues, it \in ItemTypeValues,
        iid \in ItemIdValues, sid \in SeriesIdValues }

\* payloads that vary the user, for the events that are matched against it
UserPayloads ==
    { MakePayload("Capital", nt, Absent, iid, PyStr(<<"s", "1">>), uid, nun, un) :
        nt \in { PyStr(S_ItemAdded), PyStr(S_PlaybackStop), PyStr(S_UserDataSaved) },
        iid \in { Absent, PyStr(<<"i", "1">>) },
        uid \in UserIdValues, nun \in NotificationUsernameValues, un \in UsernameValues }

JsonRequest(content_type, text) ==
    [content_type |-> content_type, form |-> <<>>, body |-> text]

FormRequest(content_type, form) ==
    [content_type |-> content_type, form |-> form, body |-> JsonText(0, JsonInvalid)]

CT_json == <<"a", "p", "p", "l", "i", "c", "a", "t", "i", "o", "n", "/", "j", "s", "o", "n">>
CT_UrlEncodedCharset ==
    [i \in 1..Len(CT_urlencoded) |-> IF i = 1 THEN "A" ELSE CT_urlencoded[i]]
        \o <<";", " ", "c", "h", "a", "r", "s", "e", "t", "=", "u", "t", "f", "-", "8">>
CT_MultipartBoundary ==
    [i \in 1..Len(CT_multipart) |-> UpperChar(CT_multipart[i])]
        \o <<";", " ", "b", "o", "u", "n", "d", "a", "r", "y", "=", "x">>

\* a form submits text: every field is a str
IsFormPayload(payload) == \A i \in 1..Len(payload) : payload[i][2].t = "str"

\* the ways a payload reaches parse_webhook: a JSON body, the JSON of a form's
\* payload field, or the fields of a form
PayloadRequests ==
    { JsonRequest(PyStr(CT_json), JsonText(0, JsonObject(payload))) :
        payload \in EventPayloads("Capital") \cup UserPayloads }
    \cup { FormRequest(PyStr(CT_UrlEncodedCharset),
                       <<(<<K_payload, PyJsonStr(JsonText(0, JsonObject(payload)))>>)>>) :
             payload \in UserPayloads }
    \cup { FormRequest(PyStr(CT_MultipartBoundary), payload) :
             payload \in { q \in UserPayloads : IsFormPayload(q) } }

MaxEnc == 2

SamplePayload ==
    MakePayload("Capital", PyStr(S_ItemAdded), Absent, PyStr(<<"i", "1">>), Absent,
                Absent, Absent, Absent)

JsonTexts ==
    { JsonText(enc, core) :
        enc \in 0..MaxEnc, core \in {JsonObject(SamplePayload), JsonNumber, JsonInvalid} }

SampleFields ==
    <<(<<KeyIn("Capital", K_notificationtype), PyStr(S_ItemAdded)>>),
      (<<KeyIn("UPPER", K_itemid), PyStr(<<"i", "2">>)>>)>>

Forms ==
    { <<>>, SampleFields, <<(<<K_payload, PyStr(<<>>)>>)>> \o SampleFields,
      <<(<<KeyIn("Capital", K_payload), PyJsonStr(JsonText(0, JsonObject(SamplePayload)))>>)>>
          \o SampleFields }
    \cup { <<(<<K_payload, PyJsonStr(text)>>)>> \o SampleFields : text \in JsonTexts }

ContentTypes ==
    { PyNone, PyStr(CT_json), PyStr(CT_UrlEncodedCharset), PyStr(CT_MultipartBoundary),
      PyStr(<<" ">> \o CT_multipart) }

\* requests of every shape: content type, form and body vary independently
ShapeRequests ==
    { [content_type |-> content_type, form |-> form, body |-> body] :
        content_type \in ContentTypes, form \in Forms, body \in JsonTexts }

Requests == PayloadRequests \cup ShapeRequests

\* mappings handed to JellyfinWebhook(data) directly; two keys may differ in case only
DirectPayloads ==
    EventPayloads("lower") \cup EventPayloads("Capital")
    \cup { payload \o <<(<<KeyIn("UPPER", key), value>>)>> :
             payload \in { MakePayload("lower", PyStr(S_ItemAdded), it, iid, sid,
                                       Absent, Absent, Absent) :
                             it \in ItemTypeValues, iid \in ItemIdValues,
                             sid \in SeriesIdValues },
             key \in {K_itemid, K_seriesid},
             value \in {Blank, PyStr(<<"x", "2">>)} }

----------------------------------------------------------------------------
(* The operations of the provider the host calls *)

Idle == call = NoCall

\* what initialize leaves in the provider, in its client and with the host
Initialized(done) ==
    /\ provider' = done.provider
    /\ client' = done.client
    /\ result' = done.outcome

\* await provider.initialize()
Initialize(fault) ==
    /\ Idle
    /\ Initialized(ProviderInitialize(provider, client, server, fault))
    /\ call' = [op |-> "initialize", fault |-> fault]
    /\ UNCHANGED <<server, queries>>

\* await provider.close()
Close ==
    /\ Idle
    /\ client' = ClientClose(client)
    /\ provider' = ProviderClose(provider)
    /\ call' = [op |-> "close"]
    /\ result' = Return(PyNone)
    /\ UNCHANGED <<server, queries>>

\* await provider.parse_webhook(request)
ParseWebhook(request) ==
    /\ Idle
    /\ call' = [op |-> "parse_webhook", request |-> request]
    /\ result' = ParseWebhookResult(provider, request)
    /\ UNCHANGED <<server, client, provider, queries>>

\* await JellyfinWebhook.from_request(request)
WebhookFromRequest(request) ==
    /\ Idle
    /\ call' = [op |-> "from_request", request |-> request]
    /\ result' = FromRequest(request)
    /\ UNCHANGED <<server, client, provider, queries>>

\* JellyfinWebhook(data).top_level_item_id
WebhookTopLevelItemId(data) ==
    /\ Idle
    /\ call' = [op |-> "top_level_item_id", data |-> data]
    /\ result' = Return(TopLevelItemId(WebhookInit(data)))
    /\ UNCHANGED <<server, client, provider, queries>>

\* the host takes the outcome; the provider is ready for the next call
HostReturn ==
    /\ ~Idle
    /\ call' = NoCall
    /\ result' = NoResult
    /\ queries' = <<>>
    /\ UNCHANGED <<server, client, provider>>

Init ==
    /\ server = DefaultServer
    /\ \E user \in ConfigUsers : client = ClientNew(user, {}, {})
    /\ provider = ProviderNew(<<>>)
    /\ call = NoCall
    /\ result = NoResult
    /\ queries = <<>>

Next ==
    \/ \E fault \in Faults : Initialize(fault)
    \/ Close
    \/ \E request \in Requests : ParseWebhook(request)
    \/ \E request \in ShapeRequests : WebhookFromRequest(request)
    \/ \E data \in DirectPayloads : WebhookTopLevelItemId(data)
    \/ HostReturn

Spec == Init /\ [][Next]_vars

----------------------------------------------------------------------------
(* The library of the listing specification *)

UserData(played, play_count, playback_position_ticks, is_favorite, last_played_date) ==
    [ t |-> "UserItemDataDto",
      played |-> played,
      play_count |-> play_count,
      playback_position_ticks |-> playback_position_ticks,
      is_favorite |-> is_favorite,
      last_played_date |-> last_played_date ]

Item(id, type, parent_id, user_data, date_last_saved, date_last_media_added, genres) ==
    [ t |-> "BaseItemDto",
      id |-> id,
      type |-> type,
      parent_id |-> parent_id,
      user_data |-> user_data,
      date_last_saved |-> date_last_saved,
      date_last_media_added |-> date_last_media_added,
      genres |-> genres ]

\* dates are days; the cutoff of an incremental listing lies between them
Cutoff == 2
Early == Cutoff - 1
Late == Cutoff + 1

Untouched == UserData(FALSE, 0, 0, FALSE, PyNone)
PlayedAt(day) == UserData(TRUE, 1, 0, FALSE, PyInt(day))
Favorite == UserData(FALSE, 0, 0, TRUE, PyNone)
Resumable == UserData(FALSE, 0, 5, FALSE, PyInt(Late))
Counted == UserData(FALSE, 1, 0, FALSE, PyInt(Early))

ShowsView == DefaultViews[1]
MoviesView == DefaultViews[2]

G_Action == <<"A", "c", "t", "i", "o", "n">>
G_Drama == <<"D", "r", "a", "m", "a">>

\* two shows with their episodes, a show the server gives no id, and a movie
Library(a, a_saved, a_added, a_episode, b, b_episode, movie) ==
    << Item(Uuid(6), "Series", ShowsView.id, a, PyInt(a_saved), PyInt(a_added), <<G_Action>>),
       Item(Uuid(8), "Episode", Uuid(6), PyNone, PyInt(Early), PyInt(Early), <<>>),
       Item(Uuid(9), "Episode", Uuid(6), a_episode, PyInt(Early), PyInt(Early), <<>>),
       Item(Uuid(7), "Series", ShowsView.id, b, PyInt(Late), PyInt(Early), <<G_Drama>>),
       Item(Uuid(10), "Episode", Uuid(7), b_episode, PyInt(Early), PyInt(Early), <<>>),
       Item(PyNone, "Series", ShowsView.id, Untouched, PyInt(Late), PyNone, <<G_Action>>),
       Item(Uuid(11), "Movie", MoviesView.id, movie, PyInt(Late), PyInt(Late), <<G_Action>>) >>

\* libraries that vary who has watched what
ActivityLibraries ==
    { Library(a, Late, Early, a_episode, b, b_episode, Favorite) :
        a \in {PyNone, Untouched, PlayedAt(Late), Favorite, Resumable, Counted},
        a_episode \in {PyNone, Untouched, PlayedAt(Early), Resumable},
        b \in {Untouched, Favorite},
        b_episode \in {Untouched, PlayedAt(Late)} }

\* libraries that vary the dates around the cutoff
DatedLibraries ==
    { Library(a, dates[1], dates[2], a_episode, Untouched, PlayedAt(Early), movie) :
        a \in {Untouched, PlayedAt(Early), PlayedAt(Late)},
        dates \in {<<Early, Early>>, <<Late, Early>>, <<Early, Late>>},
        a_episode \in {Untouched, PlayedAt(Early), PlayedAt(Late)},
        movie \in {Untouched, PlayedAt(Early)} }

Libraries == ActivityLibraries \cup DatedLibraries

\* the sections the host may hold: the views an initialize() makes sections of
HostSections == {ShowsView, MoviesView}

KeyLists ==
    { PyNone, PyList(<<>>), PyList(<<PyStr(UuidStr(Uuid(6)))>>),
      PyList(<<PyStr(<<"n", "o">>), PyStr(<<"A", "7">>)>>) }

\* the parents whose get_items query fails
Failings == { {}, {Uuid(6)}, {Uuid(6), Uuid(7)}, {ShowsView.id} }

----------------------------------------------------------------------------
(* Listing a section *)

\* await client.list_section_items(section, min_last_modified=..., ...)
ListSectionItems(section, min_last_modified, require_watched, keys, failing) ==
    /\ Idle
    /\ call' = [ op |-> "list_section_items", section |-> section,
                 min_last_modified |-> min_last_modified,
                 require_watched |-> require_watched, keys |-> keys,
                 failing |-> failing ]
    /\ LET done == ListSectionItemsResult(client, server, section, min_last_modified,
                                          require_watched, keys, failing)
       IN  /\ result' = done.outcome
           /\ queries' = done.queries
    /\ UNCHANGED <<server, client, provider>>

InitList ==
    /\ \E items \in Libraries, filters \in BOOLEAN :
          server = [DefaultServer EXCEPT !.items = items, !.filters = filters]
    /\ \E genre_filter \in {{}, {G_Action}} :
          client = ClientNew(<<" ", "B", "O", "B", " ">>, {}, genre_filter)
    /\ provider = ProviderNew(<<>>)
    /\ call = NoCall
    /\ result = NoResult
    /\ queries = <<>>

NextList ==
    \/ Initialize("none")
    \/ Close
    \/ \E section \in HostSections, min_last_modified \in {PyNone, PyInt(Cutoff)},
          require_watched \in BOOLEAN, keys \in KeyLists, failing \in Failings :
          ListSectionItems(section, min_last_modified, require_watched, keys, failing)
    \/ HostReturn

SpecList == InitList /\ [][NextList]_vars

----------------------------------------------------------------------------
(* Properties of the webhook path *)

ParseWebhookCalled == call.op = "parse_webhook"

\* the webhook object parse_webhook works on, when from_request yields one
Parsed == FromRequest(call.request)
HasPayload == ParseWebhookCalled /\ Parsed.kind = "return"
PayloadEvent == NotificationType(Parsed.value)
PayloadTop == TopLevelItemId(Parsed.value)
Synced == Return([sync |-> TRUE, keys |-> <<PayloadTop.s>>])

UnsupportedEvent ==
    /\ HasPayload
    /\ Truthy(PayloadTop)
    /\ Truthy(PayloadEvent)
    /\ PayloadEvent.s \notin {S_ItemAdded, S_PlaybackStop, S_UserDataSaved}

\* C1: a payload with a top-level item id and a non-empty notification type
\* other than ItemAdded, PlaybackStop and UserDataSaved is answered (False, ())
\* and nothing is raised, whatever its user fields and the provider's user.
C1_UnsupportedEventIgnored == UnsupportedEvent => result = Ignored

\* an unsupported event of a user that matches the initialized provider's user
C1_Witness ==
    /\ UnsupportedEvent
    /\ ~IsNone(provider.user)
    /\ WebhookUserMatches(provider.user, Parsed.value)
    /\ result = Ignored

ItemAddedEvent ==
    /\ HasPayload
    /\ Truthy(PayloadTop)
    /\ Truthy(PayloadEvent)
    /\ PayloadEvent.s = S_ItemAdded

\* C2: an ItemAdded webhook with a resolvable top-level item id is answered
\* (True, (top_level_item_id,)), one key, whatever the payload's user and
\* whether initialize() or close() has run.
C2_ItemAddedSynced == ItemAddedEvent => result = Synced

\* ItemAdded on a provider that has no user, from a payload that names one
C2_Witness ==
    /\ ItemAddedEvent
    /\ IsNone(provider.user)
    /\ Truthy(UserId(Parsed.value))
    /\ result = Synced
    /\ Len(result.value.keys) = 1

UserEvent ==
    /\ HasPayload
    /\ Truthy(PayloadTop)
    /\ Truthy(PayloadEvent)
    /\ PayloadEvent.s \in {S_PlaybackStop, S_UserDataSaved}

PayloadUserIdIs(key) ==
    /\ ~IsNone(UserId(Parsed.value))
    /\ Lower(UserId(Parsed.value).s) = Lower(key)

PayloadUserNameIs(title) ==
    /\ ~IsNone(Username(Parsed.value))
    /\ Lower(Username(Parsed.value).s) = Lower(title)

ProviderUserNamed ==
    /\ ~IsNone(provider.user)
    /\ PayloadUserIdIs(provider.user.key) \/ PayloadUserNameIs(provider.user.title)

\* C3: a PlaybackStop or UserDataSaved webhook with a resolvable item id is
\* answered (True, (top_level_item_id,)) exactly when the provider user is set
\* and the payload's user id equals its key or the payload's user name equals
\* its title, compared case-insensitively; otherwise (False, ()).
C3_UserEventSyncedIffUserMatches ==
    UserEvent => result = (IF ProviderUserNamed THEN Synced ELSE Ignored)

\* matched by the name alone, spelled in another case than the user's title
C3_Witness ==
    /\ UserEvent
    /\ ~IsNone(provider.user)
    /\ ~PayloadUserIdIs(provider.user.key)
    /\ PayloadUserNameIs(provider.user.title)
    /\ Username(Parsed.value).s # provider.user.title
    /\ result = Synced

\* a user event on a provider whose user is not set is ignored
C3_WitnessNoUser ==
    /\ UserEvent
    /\ IsNone(provider.user)
    /\ result = Ignored

NoIdentification ==
    /\ HasPayload
    /\ ~Truthy(PayloadEvent) \/ ~Truthy(PayloadTop)

\* C4: parse_webhook raises ValueError when the payload has no non-blank
\* notification type and when no top-level item id can be resolved, before the
\* event type is looked at, and no parse_webhook call changes provider state.
C4_MissingFieldsRaise ==
    /\ [](NoIdentification => result = Raise("ValueError"))
    /\ [][ParseWebhookCalled' => provider' = provider /\ client' = client /\ server' = server]_vars

\* an unsupported event type without an item id raises instead of being ignored
C4_Witness ==
    /\ HasPayload
    /\ Truthy(PayloadEvent)
    /\ PayloadEvent.s \notin JellyfinWebhookNotificationType
    /\ ~Truthy(PayloadTop)
    /\ ~IsNone(provider.user)
    /\ result = Raise("ValueError")

\* what a payload gives for a key, keys compared without regard to letter
\* case (of two keys that differ in case only, the later one counts); a
\* missing, null, empty or whitespace-only value is no value
Given(data, key) ==
    LET at == {i \in 1..Len(data) : Lower(data[i][1]) = key}
        last == CHOOSE i \in at : \A j \in at : j <= i
    IN  IF at = {} THEN PyNone
        ELSE IF IsNone(data[last][2]) THEN PyNone
        ELSE IF Strip(StrOf(data[last][2])) = <<>> THEN PyNone
        ELSE PyStr(Strip(StrOf(data[last][2])))

ExpectedTopLevelItemId(data) ==
    LET type == Given(data, K_itemtype)
        item == Given(data, K_itemid)
        series == Given(data, K_seriesid)
    IN  IF /\ ~IsNone(type)
           /\ Lower(type.s) \in {S_episode, S_season}
           /\ ~IsNone(series)
        THEN series
        ELSE IF ~IsNone(item) THEN item
        ELSE series

\* C5: top_level_item_id is the series id when the item type, whatever its
\* letter case, is episode or season and a non-blank series id is present;
\* otherwise the item id if non-blank, else the series id if non-blank, else
\* None.  Keys are matched case-insensitively and blank values count as absent.
C5_TopLevelItemId ==
    call.op = "top_level_item_id" => result = Return(ExpectedTopLevelItemId(call.data))

\* an item type that is not spelled in lower case, both ids present under keys
\* that are not lower case either: the series id is the answer
C5_Witness ==
    /\ call.op = "top_level_item_id"
    /\ \E i \in 1..Len(call.data) :
          /\ call.data[i][1] # Lower(call.data[i][1])
          /\ Lower(call.data[i][1]) = K_itemtype
          /\ call.data[i][2].s \notin {S_episode, S_season}
    /\ ~IsNone(Given(call.data, K_itemid))
    /\ ~IsNone(Given(call.data, K_seriesid))
    /\ result = Return(Given(call.data, K_seriesid))

\* a blank item id and no series id: there is no top-level item id
C5_WitnessNone ==
    /\ call.op = "top_level_item_id"
    /\ \E i \in 1..Len(call.data) : call.data[i] = <<K_itemid, Blank>>
    /\ result = Return(PyNone)

IsFormRequest(request) ==
    LET content_type ==
            IF IsNone(request.content_type) THEN <<>> ELSE Lower(request.content_type.s)
    IN  StartsWith(content_type, CT_multipart) \/ StartsWith(content_type, CT_urlencoded)

\* the form's payload field, when it has one that is not empty
PayloadFields(request) ==
    {i \in 1..Len(request.form) :
        request.form[i][1] = K_payload /\ request.form[i][2] # PyStr(<<>>)}

\* a JSON text resolves to an object when it is one, or is the JSON string of one
ResolvesToObject(text) == text.core.k = "object" /\ text.enc \in {0, 1}

FromText(text) ==
    IF ResolvesToObject(text) THEN Return(WebhookInit(text.core.data))
    ELSE Raise("ValueError")

ExpectedFromRequest(request) ==
    IF IsFormRequest(request)
    THEN IF PayloadFields(request) # {}
         THEN FromText(request.form[CHOOSE i \in PayloadFields(request) : TRUE][2].j)
         ELSE Return(WebhookInit(request.form))
    ELSE FromText(request.body)

\* C6: from_request yields a webhook object only when the body resolves to a
\* JSON object: a form-encoded or multipart request uses the JSON of its
\* payload field if that is non-empty and its form fields otherwise, any other
\* request its JSON body; a JSON string is decoded once more; undecodable JSON
\* or a value that is not an object raises ValueError.
C6_FromRequest ==
    call.op = "from_request" => result = ExpectedFromRequest(call.request)

\* a JSON body that is the JSON string of an object yields the webhook object
C6_Witness ==
    /\ call.op = "from_request"
    /\ ~IsFormRequest(call.request)
    /\ call.request.body.enc = 1
    /\ call.request.body.core.k = "object"
    /\ result.kind = "return"

\* a JSON string of a JSON string of an object is refused
C6_WitnessTwice ==
    /\ call.op = "from_request"
    /\ IsFormRequest(call.request)
    /\ PayloadFields(call.request) # {}
    /\ \E i \in PayloadFields(call.request) :
          /\ call.request.form[i][2].j.enc = 2
          /\ call.request.form[i][2].j.core.k = "object"
    /\ result = Raise("ValueError")

----------------------------------------------------------------------------
(* Properties of list_section_items *)

Listed == call.op = "list_section_items"

\* what _fetch_section_items handed back to the call under way
Fetched ==
    FetchSectionItems(client, server, call.section, call.min_last_modified,
                      call.require_watched, call.keys, call.failing)

\* played, a non-zero play count, a non-zero playback position, or favorite
Activity(user_data) ==
    /\ ~IsNone(user_data)
    /\ \/ user_data.played
       \/ user_data.play_count # 0
       \/ user_data.playback_position_ticks # 0
       \/ user_data.is_favorite

\* a Series of a TV-shows section, which has episodes to consult
IsShow(item) ==
    /\ call.section.collection_type = "tvshows"
    /\ item.type = "Series"
    /\ ~IsNone(item.id)

\* the show's episodes could be loaded and one of them has activity
EpisodeActivity(item) ==
    /\ item.id \notin call.failing
    /\ \E i \in 1..Len(server.items) :
          /\ server.items[i].type = "Episode"
          /\ server.items[i].parent_id = item.id
          /\ Activity(server.items[i].user_data)

Watched(item) ==
    \/ Activity(item.user_data)
    \/ IsShow(item) /\ EpisodeActivity(item)

\* the shows whose episodes have to be consulted
Unsettled(item) == ~Activity(item.user_data) /\ IsShow(item)

WatchedListing ==
    /\ Listed
    /\ call.require_watched
    /\ IsNone(call.keys)
    /\ Fetched.outcome.kind = "return"

EpisodeQueriesFor(shows) ==
    /\ Len(queries) = 1 + Len(shows)
    /\ \A i \in 1..Len(shows) :
          /\ queries[i + 1].include_item_types = {"Episode"}
          /\ queries[i + 1].parent_id = shows[i].id

C7_WitnessOwnActivity ==
    /\ WatchedListing
    /\ call.section.collection_type = "tvshows"
    /\ result.kind = "return"
    /\ Len(result.value) = 2
    /\ \A i \in 1..2 : /\ ~IsNone(result.value[i].user_data)
                        /\ result.value[i].user_data.is_favorite
    /\ Len(queries) = 1

WatchedShowsListing ==
    /\ Listed
    /\ call.require_watched
    /\ call.section.collection_type = "tvshows"
    /\ IsNone(call.keys)
    /\ call.failing = {}
    /\ result.kind = "return"

\* the watched episodes below the section, as an is_played query yields them
WatchedEpisodes ==
    SelectSeq(server.items,
              LAMBDA item : /\ item.type = "Episode"
                            /\ Under(server, item, call.section.id)
                            /\ ~IsNone(item.user_data)
                            /\ item.user_data.played)

ParentOf(item) == item.parent_id

\* C8: for a TV-shows section with require_watched, list_section_items sends
\* exactly two queries, first one for episodes with is_played=True, then one
\* for the series whose ids are the parents of those watched episodes, and it
\* returns those series.
C8_TwoQueries ==
    WatchedShowsListing =>
        /\ Len(queries) = 2
        /\ queries[1].include_item_types = {"Episode"}
        /\ queries[1].is_played = PyBool(TRUE)
        /\ queries[2].include_item_types = {"Series"}
        /\ ~IsNone(queries[2].ids)
        /\ {queries[2].ids.items[i] : i \in 1..Len(queries[2].ids.items)}
               = {ParentOf(WatchedEpisodes[i]) : i \in 1..Len(WatchedEpisodes)}
        /\ \A i \in 1..Len(result.value) :
              \E j \in 1..Len(WatchedEpisodes) :
                  result.value[i].id = ParentOf(WatchedEpisodes[j])

CutoffGiven == ~IsNone(call.min_last_modified)

\* a watched episode of the show was last played at or after the cutoff
WatchedSince(show) ==
    \E i \in 1..Len(WatchedEpisodes) :
        /\ ParentOf(WatchedEpisodes[i]) = show.id
        /\ ~IsNone(WatchedEpisodes[i].user_data.last_played_date)
        /\ WatchedEpisodes[i].user_data.last_played_date.n >= call.min_last_modified.n

Returned(item) == \E i \in 1..Len(result.value) : result.value[i] = item

\* the section's items of the listed kind that pass the client's genre filter
SectionItems ==
    SelectSeq(server.items,
              LAMBDA item :
                  /\ item.type = (IF call.section.collection_type = "movies"
                                  THEN "Movie" ELSE "Series")
                  /\ item.parent_id = call.section.id
                  /\ client.genre_filter = {} \/ GenreListed(item, client.genre_filter))

\* C9: for a TV-shows section with require_watched and a cutoff, a series is
\* returned if and only if one of its watched episodes was last played at or
\* after the cutoff, whatever the dates of the series itself.
C9_CutoffOnEpisodes ==
    WatchedShowsListing /\ CutoffGiven =>
        \A i \in 1..Len(SectionItems) :
            ~IsNone(SectionItems[i].id) =>
                (Returned(SectionItems[i]) <=> WatchedSince(SectionItems[i]))

PlainListing ==
    /\ Listed
    /\ ~call.require_watched
    /\ IsNone(call.keys)
    /\ CutoffGiven
    /\ result.kind = "return"

\* added to, or last played, at or after the cutoff
Recent(item) ==
    \/ /\ ~IsNone(item.date_last_media_added)
       /\ item.date_last_media_added.n >= call.min_last_modified.n
    \/ /\ ~IsNone(item.user_data)
       /\ ~IsNone(item.user_data.last_played_date)
       /\ item.user_data.last_played_date.n >= call.min_last_modified.n

\* C10: with a cutoff and require_watched off, list_section_items returns
\* exactly the section's items whose last-media-added date or last-played date
\* is at or after the cutoff, and the query it sends carries no
\* min_date_last_saved.
C10_ClientSideCutoff ==
    PlainListing =>
        /\ result = Return(SelectSeq(SectionItems, Recent))
        /\ \A i \in 1..Len(queries) : IsNone(queries[i].min_date_last_saved)

FilteredMovieListing ==
    /\ Listed
    /\ call.section.collection_type = "movies"
    /\ call.require_watched
    /\ client.genre_filter # {}
    /\ ~IsNone(call.keys)
    /\ ParsedIds(call.keys.items) # <<>>
    /\ result.kind = "return"

\* C11: for a movies section with require_watched, a genre filter and keys,
\* list_section_items sends exactly one query, and it carries is_played=True,
\* the lower-cased configured genres and the keys parsed as UUIDs.
C11_ServerSideFilters ==
    FilteredMovieListing =>
        /\ Len(queries) = 1
        /\ queries[1].is_played = PyBool(TRUE)
        /\ queries[1].genres = PySet(client.genre_filter)
        /\ queries[1].ids = PyList(ParsedIds(call.keys.items))

\* what the call under way would return had it been given no keys
Unkeyed ==
    ListSectionItemsResult(client, server, call.section, call.min_last_modified,
                           call.require_watched, PyNone, call.failing)

\* the string form of the item's id is one of the keys
KeyNamed(item) ==
    /\ ~IsNone(item.id)
    /\ \E i \in 1..Len(call.keys.items) : call.keys.items[i] = PyStr(UuidStr(item.id))

\* C12: with keys, list_section_items returns exactly the section's fetched
\* items whose id, in its string form, is one of the keys; keys that are no
\* UUID are skipped and raise nothing.
C12_KeysFilter ==
    (Listed /\ ~IsNone(call.keys) /\ Unkeyed.outcome.kind = "return") =>
        result = Return(SelectSeq(Unkeyed.outcome.value, KeyNamed))

----------------------------------------------------------------------------
(* Servers and configurations of the setup specification *)

S_Bob == <<"B", "o", "b">>
S_a2 == <<"a", "2">>

\* a user named like the id of the user after it; a server without Bob
UserLists ==
    { DefaultUsers,
      << [t |-> "UserDto", id |-> Uuid(1), name |-> PyStr(S_a2)],
         [t |-> "UserDto", id |-> Uuid(2), name |-> PyStr(S_Bob)] >>,
      << [t |-> "UserDto", id |-> Uuid(2), name |-> PyNone] >> }

S_Shows == <<"S", "h", "o", "w", "s">>
S_ANIME == <<"A", "N", "I", "M", "E">>

View(id, name, collection_type) ==
    [id |-> id, name |-> name, collection_type |-> collection_type]

\* views in another order, with a second TV-shows view and one without a name
ViewLists ==
    { DefaultViews,
      << View(Uuid(4), PyNone, "movies"),
         View(Uuid(5), PyStr(S_Shows), "music"),
         View(Uuid(12), PyStr(S_ANIME), "tvshows"),
         View(Uuid(3), PyStr(S_Shows), "tvshows") >> }

\* the section filter of the configuration, as the user spelled it
SectionFilters == { {}, {<<"S", "H", "O", "W", "S">>} }

FetcherOrders ==
    { PyNone, PyList(<<>>), PyList(<<"", "AniDB", "AniList">>), PyList(<<"TheTVDB">>) }

FetcherLists ==
    { PyNone, PyList(<<>>), PyList(<<"AniList">>), PyList(<<"", "TheTVDB", "AniDB">>) }

\* the type options of the TV-shows folder
TypeOptionLists ==
    { PyList(<<FetcherOption("Series", order, enabled)>>) :
        order \in FetcherOrders, enabled \in FetcherLists }
    \cup
    { PyNone,
      PyList(<<>>),
      PyList(<< FetcherOption("Movie", PyList(<<"IMDb">>), PyList(<<"IMDb">>)),
                FetcherOption("Series", PyList(<<"AniList">>), PyList(<<"TheTVDB">>)),
                FetcherOption("Series", PyNone, PyList(<<"TheMovieDb">>)) >>) }

Folder(item_id, collection_type, library_options) ==
    [item_id |-> item_id, collection_type |-> collection_type,
     library_options |-> library_options]

\* a TV-shows folder with the options, a TV-shows folder without any, and a
\* movies folder whose Series option names a fetcher
FolderLists ==
    { << Folder(PyStr(<<"A", "3">>), "tvshows", LibraryOptions(type_options)),
         Folder(PyStr(<<"a", "c">>), "tvshows", PyNone),
         Folder(PyStr(<<"a", "4">>), "movies",
                LibraryOptions(PyList(<<FetcherOption("Series", PyNone,
                                                      PyList(<<"AniDB">>))>>))) >> :
        type_options \in TypeOptionLists }

SetupUsers == ConfigUsers \cup { <<" ", " ">> }

----------------------------------------------------------------------------
(* Setting the provider up *)

\* an administrator adds, renames or removes users on the server
UsersChange(users) ==
    /\ Idle
    /\ users # server.users
    /\ server' = [server EXCEPT !.users = users]
    /\ UNCHANGED <<client, provider, call, result, queries>>

\* await provider.get_sections()
GetSections ==
    /\ Idle
    /\ call' = [op |-> "get_sections"]
    /\ result' = Return(provider.sections)
    /\ UNCHANGED <<server, client, provider, queries>>

\* client.show_metadata_fetcher_for_section(section_id)
ShowMetadataFetcher(section_id) ==
    /\ Idle
    /\ call' = [op |-> "show_metadata_fetcher_for_section", section_id |-> section_id]
    /\ result' = Return(ShowMetadataFetcherForSection(client, section_id))
    /\ UNCHANGED <<server, client, provider, queries>>

InitSetup ==
    /\ \E users \in UserLists, views \in ViewLists, folders \in FolderLists :
          server = [DefaultServer EXCEPT !.users = users, !.views = views,
                                         !.folders = folders]
    /\ \E user \in SetupUsers, section_filter \in SectionFilters :
          client = ClientNew(user, section_filter, {})
    /\ provider = ProviderNew(<<>>)
    /\ call = NoCall
    /\ result = NoResult
    /\ queries = <<>>

NextSetup ==
    \/ \E fault \in Faults : Initialize(fault)
    \/ Close
    \/ \E users \in UserLists : UsersChange(users)
    \/ GetSections
    \/ \E view \in UNION {{views[i] : i \in 1..Len(views)} : views \in ViewLists} :
          ShowMetadataFetcher(UuidStr(view.id))
    \/ HostReturn

SpecSetup == InitSetup /\ [][NextSetup]_vars

----------------------------------------------------------------------------
(* Properties of the setup *)

\* initialize() has just run to completion
InitializedNow == call.op = "initialize" /\ result = Return(PyNone)

InSeq(seq, e) == \E i \in 1..Len(seq) : seq[i] = e

OrderOf(option) == ListOrEmpty(option.metadata_fetcher_order)
EnabledOf(option) == ListOrEmpty(option.metadata_fetchers)

\* the Series type options of a virtual folder, in the folder's order
SeriesOptions(folder) ==
    IF IsNone(folder.library_options) THEN <<>>
    ELSE SelectSeq(ListOrEmpty(folder.library_options.type_options),
                   LAMBDA option : option.type = "Series")

TvFolders == SelectSeq(server.folders, LAMBDA folder : folder.collection_type = "tvshows")

\* the fetcher the client holds for the folder's section, "" for none
Recorded(folder) ==
    ShowMetadataFetcherForSection(client, UuidStr(ParseUuid(StrOf(folder.item_id))))

\* the first non-empty entry of the order list that is in the enabled list
FirstEnabledOfOrder(option, e) ==
    \E i \in 1..Len(OrderOf(option)) :
        /\ OrderOf(option)[i] = e
        /\ e # ""
        /\ InSeq(EnabledOf(option), e)
        /\ \A j \in 1..(i - 1) :
              OrderOf(option)[j] = "" \/ ~InSeq(EnabledOf(option), OrderOf(option)[j])

\* C13: the fetcher recorded for a TV-shows folder whose Series option has an
\* order list is the first non-empty entry of that list that is in the
\* enabled list; a fetcher that is not enabled is never recorded for it.
C13_OrderedAndEnabled ==
    InitializedNow =>
        \A i \in 1..Len(TvFolders) :
            (/\ Len(SeriesOptions(TvFolders[i])) = 1
             /\ OrderOf(SeriesOptions(TvFolders[i])[1]) # <<>>
             /\ Recorded(TvFolders[i]) # "")
            => FirstEnabledOfOrder(SeriesOptions(TvFolders[i])[1], Recorded(TvFolders[i]))

\* the first non-empty entry of the enabled list
FirstOfEnabled(option, e) ==
    \E i \in 1..Len(EnabledOf(option)) :
        /\ EnabledOf(option)[i] = e
        /\ e # ""
        /\ \A j \in 1..(i - 1) : EnabledOf(option)[j] = ""

\* the option names a fetcher: from its order list when it has one (entries
\* that an enabled list rules out are passed over), else from its enabled list
Yields(option, e) ==
    IF OrderOf(option) # <<>>
    THEN \E i \in 1..Len(OrderOf(option)) :
            /\ OrderOf(option)[i] = e
            /\ e # ""
            /\ EnabledOf(option) = <<>> \/ InSeq(EnabledOf(option), e)
            /\ \A j \in 1..(i - 1) :
                  \/ OrderOf(option)[j] = ""
                  \/ EnabledOf(option) # <<>> /\ ~InSeq(EnabledOf(option), OrderOf(option)[j])
    ELSE FirstOfEnabled(option, e)

YieldsAny(option) ==
    \E e \in {OrderOf(option)[i] : i \in 1..Len(OrderOf(option))}
             \cup {EnabledOf(option)[i] : i \in 1..Len(EnabledOf(option))} :
        Yields(option, e)

\* the first Series option of the folder that names a fetcher is the k-th
Decides(folder, k) ==
    /\ k \in 1..Len(SeriesOptions(folder))
    /\ YieldsAny(SeriesOptions(folder)[k])
    /\ \A j \in 1..(k - 1) : ~YieldsAny(SeriesOptions(folder)[j])

FetcherAsked == call.op = "show_metadata_fetcher_for_section"

\* C14: when the deciding Series option of a TV-shows folder has no order
\* list, the recorded fetcher is the first non-empty entry of its enabled
\* list; when no Series option yields a fetcher the section has no entry,
\* and show_metadata_fetcher_for_section answers None for a section without
\* an entry.
C14_EnabledWhenNoOrder ==
    /\ InitializedNow =>
          \A i \in 1..Len(TvFolders) :
              /\ \A k \in 1..Len(SeriesOptions(TvFolders[i])) :
                    (/\ Decides(TvFolders[i], k)
                     /\ OrderOf(SeriesOptions(TvFolders[i])[k]) = <<>>)
                    => FirstOfEnabled(SeriesOptions(TvFolders[i])[k], Recorded(TvFolders[i]))
              /\ (\A k \in 1..Len(SeriesOptions(TvFolders[i])) : ~Decides(TvFolders[i], k))
                    => /\ Recorded(TvFolders[i]) = ""
                       /\ \A j \in 1..Len(client.fetchers) :
                             client.fetchers[j][1]
                                 # UuidStr(ParseUuid(StrOf(TvFolders[i].item_id)))
    /\ FetcherAsked =>
          ((\A j \in 1..Len(client.fetchers) : client.fetchers[j][1] # call.section_id)
              => result = Return(""))

\* an enabled list that starts with an empty entry decides for a folder
\* without an order list, next to a TV-shows folder that has no options
C14_Witness ==
    /\ InitializedNow
    /\ \E i \in 1..Len(TvFolders) :
          /\ Decides(TvFolders[i], 1)
          /\ OrderOf(SeriesOptions(TvFolders[i])[1]) = <<>>
          /\ EnabledOf(SeriesOptions(TvFolders[i])[1])[1] = ""
          /\ Recorded(TvFolders[i]) = "TheTVDB"
    /\ \E i \in 1..Len(TvFolders) :
          /\ SeriesOptions(TvFolders[i]) = <<>>
          /\ Recorded(TvFolders[i]) = ""

\* a section without an entry is asked for after a completed initialize
C14_WitnessNone ==
    /\ FetcherAsked
    /\ client.fetchers # <<>>
    /\ result = Return("")

\* the view is a movies or TV-shows library that the section filter lets through
Selected(view) ==
    /\ view.collection_type \in {"movies", "tvshows"}
    /\ \/ client.section_filter = {}
       \/ /\ ~IsNone(view.name)
          /\ \E name \in client.section_filter : Lower(name) = Lower(view.name.s)

MediaKindOf(view) == IF view.collection_type = "tvshows" THEN "SHOW" ELSE "MOVIE"

SectionsAre(sections, views) ==
    /\ Len(sections) = Len(views)
    /\ \A i \in 1..Len(views) :
          /\ sections[i].section = views[i]
          /\ sections[i].key = UuidStr(views[i].id)
          /\ sections[i].media_kind = MediaKindOf(views[i])

\* C15: after initialize() the client's sections, and the sections
\* get_sections() hands out, are exactly the server's views of collection
\* type movies or tvshows whose name passes the section filter without regard
\* to letter case, in the server's order; tvshows is SHOW, movies is MOVIE.
C15_SectionsAfterInitialize ==
    /\ InitializedNow =>
          /\ client.sections = SelectSeq(server.views, Selected)
          /\ SectionsAre(provider.sections, SelectSeq(server.views, Selected))
    /\ call.op = "get_sections" => result = Return(provider.sections)

\* a filter spelled in capitals keeps the view named Shows and drops the
\* TV-shows view of another name and the music view of the same name
C15_Witness ==
    /\ InitializedNow
    /\ client.section_filter # {}
    /\ Len(server.views) = 4
    /\ Len(provider.sections) = 1
    /\ provider.sections[1].title = S_Shows
    /\ provider.sections[1].media_kind = "SHOW"

\* without a filter both kinds are exposed, in the server's order
C15_WitnessBoth ==
    /\ call.op = "get_sections"
    /\ Len(result.value) = 2
    /\ result.value[1].media_kind = "SHOW"
    /\ result.value[2].media_kind = "MOVIE"

\* initialize() got as far as looking the configured user up
UserLookedUp == call.op = "initialize" /\ call.fault \notin {"configure", "get_users"}

\* the server user's id or name is the trimmed configured value, whatever
\* the letter case
Named(user) ==
    \/ ~IsNone(user.id) /\ Lower(UuidStr(user.id)) = Lower(Strip(client.user))
    \/ ~IsNone(user.name) /\ Lower(user.name.s) = Lower(Strip(client.user))

NoUserNamed ==
    \/ Strip(client.user) = <<>>
    \/ \A i \in 1..Len(server.users) : ~Named(server.users[i])

FirstNamed(k) ==
    /\ k \in 1..Len(server.users)
    /\ Named(server.users[k])
    /\ \A j \in 1..(k - 1) : ~Named(server.users[j])

\* the client's session fields are what they were
SessionKept ==
    /\ client'.user_id = client.user_id
    /\ client'.user_name = client.user_name
    /\ client'.sections = client.sections
    /\ client'.fetchers = client.fetchers

\* C16: initialize() resolves the configured user to the first server user
\* whose id or name equals the trimmed configured value without regard to
\* letter case; a blank value or no match raises ValueError, and then the
\* client's user id, user name, sections and fetcher map are what they were
\* before the call.
C16_ResolveUser ==
    /\ [](UserLookedUp =>
            /\ NoUserNamed => result = Raise("ValueError")
            /\ \A k \in 1..Len(server.users) :
                  FirstNamed(k) /\ Strip(client.user) # <<>>
                      => /\ client.user_id = server.users[k].id
                         /\ result # Raise("ValueError"))
    /\ [][(call'.op = "initialize" /\ result' = Raise("ValueError")) => SessionKept]_vars

\* the configured value is the id of the second user and the name of the
\* first: the first user is taken
C16_Witness ==
    /\ UserLookedUp
    /\ Len(server.users) = 2
    /\ Named(server.users[1])
    /\ Named(server.users[2])
    /\ server.users[1].id # server.users[2].id
    /\ client.user_id = server.users[1].id

\* the user is gone from the server when an initialized client initializes
\* again: ValueError, and the session of the earlier initialize() is kept
C16_WitnessKept ==
    /\ UserLookedUp
    /\ Strip(client.user) # <<>>
    /\ NoUserNamed
    /\ result = Raise("ValueError")
    /\ ~IsNone(client.user_id)
    /\ client.sections # <<>>


----------------------------------------------------------------------------
(* library.py: entries and their mapping descriptors *)

K_anidb == <<"a", "n", "i", "d", "b">>
K_anilist == <<"a", "n", "i", "l", "i", "s", "t">>
K_imdb == <<"i", "m", "d", "b">>
K_tmdb == <<"t", "m", "d", "b">>
K_tvdb == <<"t", "v", "d", "b">>

\* _PROVIDER_ID_MAP[media_key].get(normalized): "" stands for None
ProviderIdMap(media_key, normalized) ==
    CASE normalized = K_anidb -> "anidb"
      [] normalized = K_anilist -> "anilist"
      [] normalized = K_imdb -> IF media_key = "show" THEN "imdb_show" ELSE "imdb_movie"
      [] normalized = K_tmdb -> IF media_key = "show" THEN "tmdb_show" ELSE "tmdb_movie"
      [] normalized = K_tvdb -> IF media_key = "show" THEN "tvdb_show" ELSE "tvdb_movie"
      [] OTHER -> ""

\* a dict of the server: its pairs in insertion order
PyDictOf(pairs) == [t |-> "dict", pairs |-> pairs]

\* `value or {}` of an optional dict
DictOrEmpty(v) == IF IsNone(v) THEN <<>> ELSE v.pairs

\* JellyfinLibraryMovie(provider, section, item)
JellyfinLibraryMovie(section, item) ==
    [t |-> "entry", media_kind |-> "MOVIE", section |-> section, item |-> item,
     key |-> StrOf(item.id)]

\* JellyfinLibraryShow(provider, section, item)
JellyfinLibraryShow(section, item) ==
    [t |-> "entry", media_kind |-> "SHOW", section |-> section, item |-> item,
     key |-> StrOf(item.id)]

\* JellyfinLibrarySeason(provider, section, item, show=show):
\* index = int(item.index_number or 0)
JellyfinLibrarySeason(section, item, show) ==
    [t |-> "entry", media_kind |-> "SEASON", section |-> section, item |-> item,
     key |-> StrOf(item.id), show |-> show,
     index |-> IF Truthy(item.index_number) THEN item.index_number.n ELSE 0]

\* JellyfinLibraryEpisode(provider, section, item, season=season, show=show)
JellyfinLibraryEpisode(section, item, season, show) ==
    [t |-> "entry", media_kind |-> "EPISODE", section |-> section, item |-> item,
     key |-> StrOf(item.id), season |-> season, show |-> show]

\* JellyfinLibraryProvider._wrap_entry
WrapEntry(section, item) ==
    CASE item.type = "Episode" -> Return(JellyfinLibraryEpisode(section, item, PyNone, PyNone))
      [] item.type = "Season" -> Return(JellyfinLibrarySeason(section, item, PyNone))
      [] item.type = "Series" -> Return(JellyfinLibraryShow(section, item))
      [] item.type = "Movie" -> Return(JellyfinLibraryMovie(section, item))
      [] OTHER -> Raise("TypeError")

\* JellyfinClient.get_item: the server knows the item or answers with an error
ClientGetItem(c, srv, item_id) ==
    IF ~c.api THEN Raise("RuntimeError")
    ELSE IF IsNone(c.user_id) THEN Raise("RuntimeError")
    ELSE IF \E i \in 1..Len(srv.items) : srv.items[i].id = item_id
    THEN Return(srv.items[CHOOSE i \in 1..Len(srv.items) : srv.items[i].id = item_id])
    ELSE Raise("ApiException")

RECURSIVE MirrorProviderIds(_, _)
\* mapping_descriptors, lines 181-188: the loop over provider_ids.items()
MirrorProviderIds(pairs, media_key) ==
    IF pairs = <<>> THEN <<>>
    ELSE (IF ~Truthy(Head(pairs)[2]) THEN <<>>
          ELSE IF ProviderIdMap(media_key, Lower(Head(pairs)[1])) = "" THEN <<>>
          ELSE << <<ProviderIdMap(media_key, Lower(Head(pairs)[1])),
                    StrOf(Head(pairs)[2]), PyNone>> >>)
         \o MirrorProviderIds(Tail(pairs), media_key)

\* _strict_show_provider_by_section.get(key): "" stands for None
StrictShowProvider(p, key) ==
    IF \E i \in 1..Len(p.strict_map) : p.strict_map[i][1] = key
    THEN p.strict_map[CHOOSE i \in 1..Len(p.strict_map) : p.strict_map[i][1] = key][2]
    ELSE ""

\* mapping_descriptors, lines 190-200, without the restriction to shows
RestrictedEverywhere(p, entry, descriptors) ==
    IF p.strict
    THEN IF StrictShowProvider(p, entry.section.key) = "" THEN <<>>
         ELSE SelectSeq(descriptors,
                        LAMBDA d : d[1] = StrictShowProvider(p, entry.section.key))
    ELSE descriptors

\* mapping_descriptors, lines 190-200: the restriction of strict mode
Restricted(p, entry, descriptors) ==
    IF entry.media_kind = "SHOW" /\ p.strict
    THEN IF StrictShowProvider(p, entry.section.key) = "" THEN <<>>
         ELSE SelectSeq(descriptors,
                        LAMBDA d : d[1] = StrictShowProvider(p, entry.section.key))
    ELSE descriptors

\* JellyfinLibraryEntry.mapping_descriptors
EntryMappingDescriptors(p, entry) ==
    Restricted(p, entry,
               MirrorProviderIds(DictOrEmpty(entry.item.provider_ids),
                                 IF entry.media_kind = "SHOW" THEN "show" ELSE "movie"))

RECURSIVE MovieScoped(_)
\* JellyfinLibraryMovie.mapping_descriptors: its loop
MovieScoped(descriptors) ==
    IF descriptors = <<>> THEN <<>>
    ELSE << IF Head(descriptors)[1] = "anidb"
            THEN <<Head(descriptors)[1], Head(descriptors)[2], PyStr(<<"R">>)>>
            ELSE Head(descriptors) >>
         \o MovieScoped(Tail(descriptors))

RECURSIVE SeasonScopedBySeasonOnly(_, _)
\* the loop of the season without the two providers that have scopes of their own
SeasonScopedBySeasonOnly(descriptors, index) ==
    IF descriptors = <<>> THEN <<>>
    ELSE << <<Head(descriptors)[1], Head(descriptors)[2],
              PyStr(<<"s">> \o StrOf(PyInt(index)))>> >>
         \o SeasonScopedBySeasonOnly(Tail(descriptors), index)

RECURSIVE SeasonScoped(_, _)
\* JellyfinLibrarySeason.mapping_descriptors: its loop
SeasonScoped(descriptors, index) ==
    IF descriptors = <<>> THEN <<>>
    ELSE << <<Head(descriptors)[1], Head(descriptors)[2],
              CASE Head(descriptors)[1] = "anilist" -> PyNone
                [] Head(descriptors)[1] = "anidb" ->
                      IF index = 0 THEN PyStr(<<"S">>) ELSE PyStr(<<"R">>)
                [] OTHER -> PyStr(<<"s">> \o StrOf(PyInt(index)))>> >>
         \o SeasonScoped(Tail(descriptors), index)

\* the show wrapped around what get_item gave
ShowFetched(section, got) ==
    IF got.kind = "raise" THEN got ELSE Return(JellyfinLibraryShow(section, got.value))

\* JellyfinLibrarySeason.show and JellyfinLibraryEpisode.show
ParentShow(c, srv, entry) ==
    IF ~IsNone(entry.show) THEN Return(entry.show)
    ELSE IF IsNone(entry.item.series_id) THEN Raise("RuntimeError")
    ELSE ShowFetched(entry.section, ClientGetItem(c, srv, entry.item.series_id))

\* the season wrapped around what get_item gave, with the episode's show
SeasonFetched(section, got, show) ==
    IF got.kind = "raise" THEN got
    ELSE IF show.kind = "raise" THEN show
    ELSE Return(JellyfinLibrarySeason(section, got.value, show.value))

\* JellyfinLibraryEpisode.season
ParentSeason(c, srv, episode) ==
    IF ~IsNone(episode.season) THEN Return(episode.season)
    ELSE IF IsNone(episode.item.season_id) THEN Raise("RuntimeError")
    ELSE SeasonFetched(episode.section,
                       ClientGetItem(c, srv, episode.item.season_id),
                       ParentShow(c, srv, episode))

\* the descriptors of a season whose show() gave `show`
SeasonOfShow(p, season, show) ==
    IF show.kind = "raise" THEN show
    ELSE Return(SeasonScoped(EntryMappingDescriptors(p, show.value), season.index))

\* JellyfinLibrarySeason.mapping_descriptors
SeasonMappingDescriptors(p, c, srv, season) ==
    SeasonOfShow(p, season, ParentShow(c, srv, season))

\* the descriptors of an episode whose season() gave `season`
EpisodeOfSeason(p, c, srv, season) ==
    IF season.kind = "raise" THEN season
    ELSE SeasonMappingDescriptors(p, c, srv, season.value)

\* entry.mapping_descriptors() of each entry class
MappingDescriptorsOf(p, c, srv, entry) ==
    CASE entry.media_kind = "MOVIE" -> Return(MovieScoped(EntryMappingDescriptors(p, entry)))
      [] entry.media_kind = "SHOW" -> Return(EntryMappingDescriptors(p, entry))
      [] entry.media_kind = "SEASON" -> SeasonMappingDescriptors(p, c, srv, entry)
      [] entry.media_kind = "EPISODE" ->
            EpisodeOfSeason(p, c, srv, ParentSeason(c, srv, entry))


----------------------------------------------------------------------------
(* Servers and configurations of the entries specification *)

MediaItem(id, type, parent_id, provider_ids, index_number, series_id, season_id) ==
    [ t |-> "BaseItemDto",
      id |-> id,
      type |-> type,
      parent_id |-> parent_id,
      provider_ids |-> provider_ids,
      index_number |-> index_number,
      series_id |-> series_id,
      season_id |-> season_id ]

\* the provider ids of a show: those of the repository's tests; every known
\* key, in mixed case, with an empty value, an unknown key and a key that
\* differs from an earlier one in case only; and none at all
ShowProviderIds ==
    { PyDictOf(<< <<(<<"T", "v", "d", "b">>), PyStr(<<"5", "5">>)>> >>),
      PyDictOf(<< <<(<<"A", "n", "i", "D", "B">>), PyStr(<<"1">>)>>,
                  <<(<<"t", "v", "d", "b">>), PyStr(<<"5">>)>>,
                  <<(<<"K", "i", "t", "s", "u">>), PyStr(<<"9">>)>>,
                  <<(<<"a", "n", "i", "l", "i", "s", "t">>), PyInt(2)>>,
                  <<(<<"I", "M", "D", "B">>), PyStr(<<"t", "t", "3">>)>>,
                  <<(<<"T", "m", "d", "b">>), PyStr(<<>>)>>,
                  <<(<<"T", "V", "D", "B">>), PyStr(<<"6">>)>>,
                  <<(<<"t", "m", "d", "b">>), PyStr(<<"4">>)>> >>),
      PyNone }

\* the provider ids of a movie: those of the repository's tests, and a movie
\* known to AniDB
MovieProviderIds ==
    { PyDictOf(<< <<(<<"I", "m", "d", "b">>), PyStr(<<"t", "t", "1", "2", "3">>)>>,
                  <<(<<"T", "m", "d", "b">>), PyStr(<<"7", "8", "9">>)>> >>),
      PyDictOf(<< <<(<<"T", "v", "d", "b">>), PyNone>>,
                  <<(<<"A", "n", "i", "D", "b">>), PyStr(<<"7">>)>>,
                  <<(<<"A", "n", "i", "L", "i", "s", "t">>), PyStr(<<"8">>)>> >>) }

\* a show with its specials, a later season and a season without a number;
\* episodes of the seasons, one directly below the show, one that names no
\* series and one whose season the server does not know; and a movie
EntryLibrary(show_ids, movie_ids) ==
    << MediaItem(Uuid(6), "Series", ShowsView.id, show_ids, PyNone, PyNone, PyNone),
       MediaItem(Uuid(13), "Season", Uuid(6), PyNone, PyInt(0), Uuid(6), PyNone),
       MediaItem(Uuid(14), "Season", Uuid(6), PyNone, PyInt(2), Uuid(6), PyNone),
       MediaItem(Uuid(15), "Season", Uuid(6), PyNone, PyNone, Uuid(6), PyNone),
       MediaItem(Uuid(8), "Episode", Uuid(14), PyNone, PyInt(1), Uuid(6), Uuid(14)),
       MediaItem(Uuid(9), "Episode", Uuid(6), PyNone, PyInt(1), Uuid(6), PyNone),
       MediaItem(Uuid(10), "Episode", Uuid(13), PyNone, PyInt(1), PyNone, Uuid(13)),
       MediaItem(Uuid(12), "Episode", Uuid(15), PyNone, PyInt(2), Uuid(6), Uuid(7)),
       MediaItem(Uuid(11), "Movie", MoviesView.id, movie_ids, PyNone, PyNone, PyNone) >>

\* the metadata fetcher of the TV-shows folder: each fetcher the provider
\* maps, one it does not, and none
EntryFetchers ==
    { PyNone, PyList(<<"AniDB">>), PyList(<<"AniList">>), PyList(<<"TheTVDB">>),
      PyList(<<"TheMovieDb">>), PyList(<<"IMDb">>), PyList(<<"Kitsu">>) }

EntryFolders(enabled) ==
    << Folder(PyStr(<<"A", "3">>), "tvshows",
              LibraryOptions(PyList(<<FetcherOption("Series", PyNone, enabled)>>))),
       Folder(PyStr(<<"a", "4">>), "movies",
              LibraryOptions(PyList(<<FetcherOption("Series", PyNone,
                                                    PyList(<<"AniDB">>))>>))) >>

\* a configuration that does not set "strict", one that turns it on and one
\* that turns it off
StrictConfigs ==
    { <<>>, << <<"strict", PyBool(TRUE)>> >>, << <<"strict", PyBool(FALSE)>> >> }

\* the items of a type below a parent
ItemsOf(srv, type, parent_id) ==
    { srv.items[i] : i \in { j \in 1..Len(srv.items) :
                               /\ srv.items[j].type = type
                               /\ Under(srv, srv.items[j], parent_id) } }

\* the movies and shows of list_items
MovieEntries(srv) ==
    { WrapEntry(LibrarySection(MoviesView), item).value :
        item \in ItemsOf(srv, "Movie", MoviesView.id) }

ShowEntries(srv) ==
    { WrapEntry(LibrarySection(ShowsView), item).value :
        item \in ItemsOf(srv, "Series", ShowsView.id) }

\* JellyfinLibraryShow.seasons
SeasonEntries(srv) ==
    UNION { { JellyfinLibrarySeason(show.section, item, show) :
                item \in ItemsOf(srv, "Season", show.item.id) } :
            show \in ShowEntries(srv) }

\* JellyfinLibrarySeason.episodes and JellyfinLibraryShow.episodes
EpisodeEntries(srv) ==
    UNION { { JellyfinLibraryEpisode(season.section, item, season, season.show) :
                item \in ItemsOf(srv, "Episode", season.item.id) } :
            season \in { s \in SeasonEntries(srv) : ~IsNone(s.item.series_id) } }
    \cup
    UNION { { JellyfinLibraryEpisode(show.section, item, PyNone, PyNone) :
                item \in ItemsOf(srv, "Episode", show.item.id) } :
            show \in ShowEntries(srv) }

\* the entries the host can hold
HostEntries(srv) ==
    MovieEntries(srv) \cup ShowEntries(srv) \cup SeasonEntries(srv) \cup EpisodeEntries(srv)

----------------------------------------------------------------------------
(* Asking entries for their mapping descriptors *)

\* entry.mapping_descriptors() of an entry the provider has handed out; it
\* has handed out entries only once an initialize() has succeeded, which is
\* when it has a user
MappingDescriptors(entry) ==
    /\ Idle
    /\ ~IsNone(provider.user)
    /\ call' = [op |-> "mapping_descriptors", entry |-> entry]
    /\ result' = MappingDescriptorsOf(provider, client, server, entry)
    /\ UNCHANGED <<server, client, provider, queries>>

InitEntries ==
    /\ \E enabled \in EntryFetchers, show_ids \in ShowProviderIds,
          movie_ids \in MovieProviderIds :
          server = [DefaultServer EXCEPT !.folders = EntryFolders(enabled),
                                         !.items = EntryLibrary(show_ids, movie_ids)]
    /\ client = ClientNew(<<"B", "o", "b">>, {}, {})
    /\ \E config \in StrictConfigs : provider = ProviderNew(config)
    /\ call = NoCall
    /\ result = NoResult
    /\ queries = <<>>

NextEntries ==
    \/ \E fault \in Faults : Initialize(fault)
    \/ Close
    \/ \E entry \in HostEntries(server) : MappingDescriptors(entry)
    \/ HostReturn

SpecEntries == InitEntries /\ [][NextEntries]_vars


----------------------------------------------------------------------------
(* Properties of the mapping descriptors *)

DescriptorsAsked == call.op = "mapping_descriptors"

\* the provider is initialized: its client has a session and it has sections
Ready ==
    /\ client.api
    /\ ~IsNone(client.user_id)
    /\ provider.sections # <<>>

StrictSet == \E i \in 1..Len(provider.config) : provider.config[i][1] = "strict"

KnownKeys == {K_anidb, K_anilist, K_imdb, K_tmdb, K_tvdb}

\* the namespace of a known key for a media kind
Namespace(key, kind) ==
    CASE key = K_anidb -> "anidb"
      [] key = K_anilist -> "anilist"
      [] key = K_imdb /\ kind = "SHOW" -> "imdb_show"
      [] key = K_imdb /\ kind = "MOVIE" -> "imdb_movie"
      [] key = K_tmdb /\ kind = "SHOW" -> "tmdb_show"
      [] key = K_tmdb /\ kind = "MOVIE" -> "tmdb_movie"
      [] key = K_tvdb /\ kind = "SHOW" -> "tvdb_show"
      [] key = K_tvdb /\ kind = "MOVIE" -> "tvdb_movie"

\* the provider ids that count: a known key and a value that is not empty
Counts(pair) == Lower(pair[1]) \in KnownKeys /\ Truthy(pair[2])

\* the descriptors mirror the provider ids: the k-th descriptor is that of
\* the k-th provider id that counts
Mirrors(descriptors, pairs, kind) ==
    /\ Len(descriptors) = Len(SelectSeq(pairs, Counts))
    /\ \A k \in 1..Len(descriptors) :
          descriptors[k] = << Namespace(Lower(SelectSeq(pairs, Counts)[k][1]), kind),
                              StrOf(SelectSeq(pairs, Counts)[k][2]),
                              PyNone >>

\* C17: with a configuration that does not set 'strict', the mapping
\* descriptors of a movie entry and of a show entry of an initialized provider
\* mirror the item's provider ids: (mapped namespace, id, None) for each
\* non-empty provider id with a known key, in the item's order.
C17_DescriptorsMirrorProviderIds ==
    (/\ DescriptorsAsked
     /\ Ready
     /\ ~StrictSet
     /\ call.entry.media_kind \in {"MOVIE", "SHOW"})
    => /\ result.kind = "return"
       /\ Mirrors(result.value, DictOrEmpty(call.entry.item.provider_ids),
                  call.entry.media_kind)


\* the top-priority metadata fetcher of the entry's section is e
TopFetcher(entry, e) ==
    \E i \in 1..Len(TvFolders) :
        /\ UuidStr(ParseUuid(StrOf(TvFolders[i].item_id))) = entry.section.key
        /\ \E k \in 1..Len(SeriesOptions(TvFolders[i])) :
              /\ Decides(TvFolders[i], k)
              /\ Yields(SeriesOptions(TvFolders[i])[k], e)

\* the mapping provider of a metadata fetcher, "" for a fetcher without one
MappedFrom(e) ==
    CASE e = "AniDB" -> "anidb"
      [] e = "AniList" -> "anilist"
      [] e = "TheTVDB" -> "tvdb_show"
      [] e = "TheMovieDb" -> "tmdb_show"
      [] e = "IMDb" -> "imdb_show"
      [] OTHER -> ""

MappedFetchers == {"AniDB", "AniList", "TheTVDB", "TheMovieDb", "IMDb"}

\* C18: in strict mode every mapping descriptor a show entry returns has the
\* provider mapped from the top-priority metadata fetcher of its section, so
\* a show in a section without a known or mapped fetcher returns none; the
\* descriptors of a movie entry are those of all its provider ids that count.
C18_StrictRestrictsShows ==
    (DescriptorsAsked /\ provider.strict) =>
        /\ call.entry.media_kind = "SHOW" =>
              /\ result.kind = "return"
              /\ \A k \in 1..Len(result.value) :
                    \E e \in MappedFetchers :
                        /\ TopFetcher(call.entry, e)
                        /\ result.value[k][1] = MappedFrom(e)
              /\ (~\E e \in MappedFetchers : TopFetcher(call.entry, e))
                    => result.value = <<>>
        /\ call.entry.media_kind = "MOVIE" =>
              /\ result.kind = "return"
              /\ Len(result.value)
                    = Len(SelectSeq(DictOrEmpty(call.entry.item.provider_ids), Counts))
              /\ \A k \in 1..Len(result.value) :
                    result.value[k][1] =
                        Namespace(Lower(SelectSeq(DictOrEmpty(call.entry.item.provider_ids),
                                                  Counts)[k][1]), "MOVIE")

\* a show with several provider ids returns only those of its section's fetcher
C18_Witness ==
    /\ DescriptorsAsked
    /\ provider.strict
    /\ call.entry.media_kind = "SHOW"
    /\ result.kind = "return"
    /\ Len(result.value) >= 2
    /\ Len(result.value) < Len(SelectSeq(DictOrEmpty(call.entry.item.provider_ids), Counts))

\* a show with provider ids in a section whose fetcher has no mapping provider
C18_WitnessUnmapped ==
    /\ DescriptorsAsked
    /\ provider.strict
    /\ Ready
    /\ call.entry.media_kind = "SHOW"
    /\ TopFetcher(call.entry, "Kitsu")
    /\ SelectSeq(DictOrEmpty(call.entry.item.provider_ids), Counts) # <<>>
    /\ result = Return(<<>>)

\* a movie keeps all its descriptors in a strict provider
C18_WitnessMovie ==
    /\ DescriptorsAsked
    /\ provider.strict
    /\ Ready
    /\ call.entry.media_kind = "MOVIE"
    /\ result.kind = "return"
    /\ Len(result.value) >= 2


\* the configured value of 'strict', true when the key is absent
ConfiguredStrict ==
    IF StrictSet THEN Truthy(MapGet(provider.config, "strict")) ELSE TRUE

\* C19: the provider's strict flag equals the configured 'strict' value and
\* is true when the key is absent; with 'strict' configured false, the
\* descriptors of a show entry are not restricted to its section's fetcher.
C19_StrictFollowsConfiguration ==
    /\ provider.strict = ConfiguredStrict
    /\ (/\ DescriptorsAsked
        /\ Ready
        /\ ~ConfiguredStrict
        /\ call.entry.media_kind = "SHOW")
       => /\ result.kind = "return"
          /\ Mirrors(result.value, DictOrEmpty(call.entry.item.provider_ids), "SHOW")


\* the index of a season: its number on the server, 0 when it has none
SeasonIndex(season) ==
    IF IsNone(season.item.index_number) THEN 0 ELSE season.item.index_number.n

\* the scope a season gives a descriptor of the mapping provider
SeasonScope(mapping_provider, index) ==
    CASE mapping_provider = "anilist" -> PyNone
      [] mapping_provider = "anidb" /\ index = 0 -> PyStr(<<"S">>)
      [] mapping_provider = "anidb" /\ index # 0 -> PyStr(<<"R">>)
      [] OTHER -> PyStr(<<"s", DigitChars[index + 1]>>)

\* what the parent show of the season answers now
OfShow(season) == MappingDescriptorsOf(provider, client, server, season.show)

\* C20: a season's mapping descriptors are those of its parent show with the
\* scope replaced: 's<season index>', except None for anilist and, for anidb,
\* 'S' for season 0 and 'R' otherwise; an episode's mapping descriptors are
\* those of its season.
C20_SeasonAndEpisodeScopes ==
    DescriptorsAsked =>
        /\ call.entry.media_kind = "SEASON" =>
              /\ result.kind = "return"
              /\ Len(result.value) = Len(OfShow(call.entry).value)
              /\ \A k \in 1..Len(result.value) :
                    result.value[k] =
                        << OfShow(call.entry).value[k][1],
                           OfShow(call.entry).value[k][2],
                           SeasonScope(OfShow(call.entry).value[k][1],
                                       SeasonIndex(call.entry)) >>
        /\ (call.entry.media_kind = "EPISODE" /\ ~IsNone(call.entry.season)) =>
              result = MappingDescriptorsOf(provider, client, server, call.entry.season)
        /\ (/\ call.entry.media_kind = "EPISODE"
            /\ IsNone(call.entry.season)
            /\ result.kind = "return") =>
              \E season \in SeasonEntries(server) :
                  /\ season.item.id = call.entry.item.season_id
                  /\ result = MappingDescriptorsOf(provider, client, server, season)

\* a later season of a show that has a TVDB descriptor
C20_Witness ==
    /\ DescriptorsAsked
    /\ call.entry.media_kind = "SEASON"
    /\ result.kind = "return"
    /\ result.value # <<>>
    /\ result.value[1][1] = "tvdb_show"
    /\ result.value[1][3] = PyStr(<<"s", "2">>)

\* the specials of a show that has an AniDB descriptor
C20_WitnessSpecials ==
    /\ DescriptorsAsked
    /\ call.entry.media_kind = "SEASON"
    /\ SeasonIndex(call.entry) = 0
    /\ result.kind = "return"
    /\ result.value # <<>>
    /\ result.value[1] = <<"anidb", <<"1">>, PyStr(<<"S">>)>>

\* a season of a show that has an AniList descriptor
C20_WitnessAniList ==
    /\ DescriptorsAsked
    /\ call.entry.media_kind = "SEASON"
    /\ result.kind = "return"
    /\ result.value # <<>>
    /\ result.value[1] = <<"anilist", <<"2">>, PyNone>>

\* an episode that looks its season up answers with that season's descriptors
C20_WitnessEpisode ==
    /\ DescriptorsAsked
    /\ call.entry.media_kind = "EPISODE"
    /\ IsNone(call.entry.season)
    /\ result.kind = "return"
    /\ result.value # <<>>
    /\ result.value[1][3] = PyStr(<<"s", "2">>)


\* C21: every mapping descriptor a movie entry returns carries no scope: its
\* third component is None, whatever provider ids the movie has.
C21_MovieDescriptorsUnscoped ==
    (DescriptorsAsked /\ call.entry.media_kind = "MOVIE") =>
        /\ result.kind = "return"
        /\ \A k \in 1..Len(result.value) : result.value[k][3] = PyNone


----------------------------------------------------------------------------
(* client.py: history and the Next Up list *)

\* JellyfinClient._normalize_local_datetime: the same instant, in the local zone
NormalizeLocalDatetime(value) ==
    IF IsNone(value) THEN PyNone
    ELSE [t |-> "datetime", day |-> value.n, tzinfo |-> "local"]

\* `x.user_data.last_played_date if x.user_data else None`, normalized
LastPlayed(item) ==
    NormalizeLocalDatetime(IF IsNone(item.user_data) THEN PyNone
                           ELSE item.user_data.last_played_date)

RECURSIVE EpisodeHistoryOfAll(_)
\* the loop of fetch_history without its two `continue`s
EpisodeHistoryOfAll(episodes) ==
    IF episodes = <<>> THEN <<>>
    ELSE << <<StrOf(Head(episodes).id), LastPlayed(Head(episodes))>> >>
         \o EpisodeHistoryOfAll(Tail(episodes))

RECURSIVE EpisodeHistory(_)
\* fetch_history, lines 252-260: the loop over the episodes
EpisodeHistory(episodes) ==
    IF episodes = <<>> THEN <<>>
    ELSE (IF ~Truthy(Head(episodes).id) THEN <<>>
          ELSE IF IsNone(LastPlayed(Head(episodes))) THEN <<>>
          ELSE << <<StrOf(Head(episodes).id), LastPlayed(Head(episodes))>> >>)
         \o EpisodeHistory(Tail(episodes))

\* the history of a season or series out of what list_show_episodes gave
HistoryOfEpisodes(listed) ==
    IF listed.outcome.kind = "raise" THEN listed
    ELSE Sent(Return(EpisodeHistory(listed.outcome.value)), listed.queries)

\* JellyfinClient.fetch_history
FetchHistory(c, srv, item, failing) ==
    IF IsNone(item.id) THEN Sent(Return(<<>>), <<>>)
    ELSE IF item.type \in {"Season", "Series"}
    THEN HistoryOfEpisodes(
             ListShowEpisodes(c, srv, item.id,
                              IF item.type = "Season" THEN item.id ELSE PyNone,
                              failing))
    ELSE IF ~IsNone(LastPlayed(item))
    THEN Sent(Return(<< <<StrOf(item.id), LastPlayed(item)>> >>), <<>>)
    ELSE Sent(Return(<<>>), <<>>)

HistoryEntry(library_key, viewed_at) ==
    [library_key |-> library_key, viewed_at |-> viewed_at]

RECURSIVE HistoryEntries(_)
HistoryEntries(history) ==
    IF history = <<>> THEN <<>>
    ELSE <<HistoryEntry(Head(history)[1], Head(history)[2])>>
         \o HistoryEntries(Tail(history))

\* JellyfinLibraryProvider.get_history
ProviderGetHistory(fetched) ==
    IF fetched.outcome.kind = "raise" THEN fetched
    ELSE Sent(Return(HistoryEntries(fetched.outcome.value)), fetched.queries)

\* the call of TvShowsApi.get_next_up
NextUpQuery(user_id, series_id) ==
    [api |-> "get_next_up", user_id |-> user_id, series_id |-> series_id, limit |-> 1]

\* The server's Next Up answer for a series; `fault` is the error the call
\* ends in, "none" for an answer
ServerGetNextUp(srv, query, fault) ==
    IF fault # "none" THEN Raise(fault)
    ELSE Return(IF query.series_id \in srv.next_up THEN PyList(<<query.series_id>>)
                ELSE PyList(<<>>))

\* is_on_continue_watching, lines 275-279, with the item's own id throughout
SeriesOfOwnId(item) ==
    IF item.type \in {"Series", "Season", "Episode"} THEN item.id ELSE PyNone

\* is_on_continue_watching, lines 275-279
SeriesOf(item) ==
    IF item.type = "Series" THEN item.id
    ELSE IF item.type \in {"Season", "Episode"} THEN item.series_id
    ELSE PyNone

\* is_on_continue_watching, lines 284-293, on the server's answer
NextUpAnswered(response, query) ==
    IF response.kind = "raise"
    THEN IF response.exc \in {"TypeError", "ValueError"}
         THEN Sent(Return(FALSE), <<query>>)
         ELSE Sent(response, <<query>>)
    ELSE Sent(Return(response.value.items # <<>>), <<query>>)

\* JellyfinClient.is_on_continue_watching
IsOnContinueWatchingResult(c, srv, item, fault) ==
    IF ~c.api \/ IsNone(c.user_id) THEN Sent(Raise("RuntimeError"), <<>>)
    ELSE IF IsNone(SeriesOf(item)) THEN Sent(Return(FALSE), <<>>)
    ELSE NextUpAnswered(ServerGetNextUp(srv, NextUpQuery(c.user_id, SeriesOf(item)), fault),
                        NextUpQuery(c.user_id, SeriesOf(item)))


\* JellyfinClient.list_show_seasons
ListShowSeasons(c, srv, show_id, failing) ==
    IF ~c.api THEN Sent(Raise("RuntimeError"), <<>>)
    ELSE IF IsNone(c.user_id) THEN Sent(Raise("RuntimeError"), <<>>)
    ELSE Sent(ServerGetItems(srv, Query(c.user_id, show_id, {"Season"},
                                        PyNone, PyNone, PyNone), failing),
              <<Query(c.user_id, show_id, {"Season"}, PyNone, PyNone, PyNone)>>)

----------------------------------------------------------------------------
(* The server and the library of the client specification *)

WatchItem(id, type, parent_id, series_id, user_data) ==
    [ t |-> "BaseItemDto",
      id |-> id,
      type |-> type,
      parent_id |-> parent_id,
      series_id |-> series_id,
      user_data |-> user_data,
      date_last_saved |-> PyInt(Early),
      date_last_media_added |-> PyInt(Early),
      genres |-> <<>> ]

\* a show with a season of three episodes (one of them without an id), an
\* episode directly below the show, a season that names no series, a movie
\* and a movie without an id
WatchLibrary(show, first, second, movie) ==
    << WatchItem(Uuid(6), "Series", ShowsView.id, PyNone, show),
       WatchItem(Uuid(13), "Season", Uuid(6), Uuid(6), PyNone),
       WatchItem(Uuid(8), "Episode", Uuid(13), Uuid(6), first),
       WatchItem(PyNone, "Episode", Uuid(13), Uuid(6), PlayedAt(Late)),
       WatchItem(Uuid(9), "Episode", Uuid(13), Uuid(6), second),
       WatchItem(Uuid(10), "Episode", Uuid(6), Uuid(6), PlayedAt(Early)),
       WatchItem(Uuid(14), "Season", Uuid(6), PyNone, PyNone),
       WatchItem(Uuid(11), "Movie", MoviesView.id, PyNone, movie),
       WatchItem(PyNone, "Movie", MoviesView.id, PyNone, PlayedAt(Late)) >>

WatchLibraries ==
    { WatchLibrary(show, first, second, movie) :
        show \in {PyNone, PlayedAt(Late)},
        first \in {PyNone, Untouched, PlayedAt(Early)},
        second \in {Untouched, PlayedAt(Late)},
        movie \in {PyNone, Untouched, PlayedAt(Late)} }

\* the series that have an episode on the Next Up list
NextUps == { {}, {Uuid(6)} }

WatchServer(items, next_up) ==
    [users |-> DefaultUsers, views |-> DefaultViews, folders |-> DefaultFolders,
     items |-> items, filters |-> TRUE, next_up |-> next_up]

\* the errors a Next Up call can end in
NextUpFaults == {"none", "TypeError", "ValueError", "ApiException"}

\* the items the host can hold
HostItems(srv) == {srv.items[i] : i \in 1..Len(srv.items)}

----------------------------------------------------------------------------
(* The operations of the client *)

\* the outcome of a call and the queries it sent
Answered(done) ==
    /\ result' = done.outcome
    /\ queries' = done.queries

\* await provider.get_history(item)
GetHistory(item, failing) ==
    /\ Idle
    /\ call' = [op |-> "get_history", item |-> item, failing |-> failing]
    /\ Answered(ProviderGetHistory(FetchHistory(client, server, item, failing)))
    /\ UNCHANGED <<server, client, provider>>

\* client.is_on_continue_watching(item)
IsOnContinueWatching(item, fault) ==
    /\ Idle
    /\ call' = [op |-> "is_on_continue_watching", item |-> item, fault |-> fault]
    /\ Answered(IsOnContinueWatchingResult(client, server, item, fault))
    /\ UNCHANGED <<server, client, provider>>

\* client.user_id()
UserIdAsked ==
    /\ Idle
    /\ call' = [op |-> "user_id"]
    /\ result' = ClientUserId(client)
    /\ UNCHANGED <<server, client, provider, queries>>

\* client.user_name()
UserNameAsked ==
    /\ Idle
    /\ call' = [op |-> "user_name"]
    /\ result' = ClientUserName(client)
    /\ UNCHANGED <<server, client, provider, queries>>

\* client.sections()
SectionsAsked ==
    /\ Idle
    /\ call' = [op |-> "sections"]
    /\ result' = Return(client.sections)
    /\ UNCHANGED <<server, client, provider, queries>>

\* client.list_show_seasons(show_id)
ShowSeasonsListed(show_id) ==
    /\ Idle
    /\ call' = [op |-> "list_show_seasons", show_id |-> show_id]
    /\ Answered(ListShowSeasons(client, server, show_id, {}))
    /\ UNCHANGED <<server, client, provider>>

\* client.list_show_episodes(show_id=show_id, season_id=season_id)
ShowEpisodesListed(show_id, season_id) ==
    /\ Idle
    /\ call' = [op |-> "list_show_episodes", show_id |-> show_id, season_id |-> season_id]
    /\ Answered(ListShowEpisodes(client, server, show_id, season_id, {}))
    /\ UNCHANGED <<server, client, provider>>

\* client.get_item(item_id)
ItemAsked(item_id) ==
    /\ Idle
    /\ call' = [op |-> "get_item", item_id |-> item_id]
    /\ result' = ClientGetItem(client, server, item_id)
    /\ UNCHANGED <<server, client, provider, queries>>

InitClient ==
    /\ \E items \in WatchLibraries, next_up \in NextUps :
          server = WatchServer(items, next_up)
    /\ client = ClientNew(<<"B", "o", "b">>, {}, {})
    /\ provider = ProviderNew(<<>>)
    /\ call = NoCall
    /\ result = NoResult
    /\ queries = <<>>

NextClient ==
    \/ \E fault \in Faults : Initialize(fault)
    \/ Close
    \/ \E item \in HostItems(server), failing \in {{}, {Uuid(13)}} :
          GetHistory(item, failing)
    \/ \E item \in HostItems(server), fault \in NextUpFaults :
          IsOnContinueWatching(item, fault)
    \/ UserIdAsked
    \/ UserNameAsked
    \/ SectionsAsked
    \/ ShowSeasonsListed(Uuid(6))
    \/ \E season_id \in {PyNone, Uuid(13)} : ShowEpisodesListed(Uuid(6), season_id)
    \/ \E item_id \in {Uuid(6), Uuid(7)} : ItemAsked(item_id)
    \/ \E section \in HostSections :
          ListSectionItems(section, PyNone, FALSE, PyNone, {})
    \/ HostReturn

SpecClient == InitClient /\ [][NextClient]_vars


----------------------------------------------------------------------------
(* Properties of the watch state *)

HistoryAsked == call.op = "get_history"

\* the item has a last-played date
HasLastPlayed(item) ==
    /\ ~IsNone(item.user_data)
    /\ ~IsNone(item.user_data.last_played_date)

\* the history entry is that of the item: its id and its last-played time
EntryOf(entry, item) ==
    /\ entry.library_key = StrOf(item.id)
    /\ entry.viewed_at.day = item.user_data.last_played_date.n

\* the episodes below the asked item that have an id and a last-played date,
\* in the server's order
PlayedEpisodes ==
    SelectSeq(server.items,
              LAMBDA e : /\ e.type = "Episode"
                         /\ Under(server, e, call.item.id)
                         /\ ~IsNone(e.id)
                         /\ HasLastPlayed(e))

\* C22: the history of an item without an id is empty; that of an item that
\* is neither Season nor Series is its one entry (its id, its last-played
\* time) when it has a last-played date and empty otherwise; that of a
\* Season or Series has one entry per episode with an id and a last-played
\* date, keyed by the episode's id, in episode order.
C22_HistoryUsesLastPlayed ==
    HistoryAsked =>
        /\ IsNone(call.item.id) => result = Return(<<>>)
        /\ (~IsNone(call.item.id) /\ call.item.type \notin {"Season", "Series"}) =>
              /\ result.kind = "return"
              /\ HasLastPlayed(call.item) =>
                    /\ Len(result.value) = 1
                    /\ EntryOf(result.value[1], call.item)
              /\ ~HasLastPlayed(call.item) => result.value = <<>>
        /\ (/\ ~IsNone(call.item.id)
            /\ call.item.type \in {"Season", "Series"}
            /\ result.kind = "return") =>
              /\ Len(result.value) = Len(PlayedEpisodes)
              /\ \A k \in 1..Len(result.value) :
                    EntryOf(result.value[k], PlayedEpisodes[k])

\* a season with two played episodes, an episode without an id and an
\* episode that has not been played
C22_Witness ==
    /\ HistoryAsked
    /\ call.item.type = "Season"
    /\ result.kind = "return"
    /\ Len(result.value) = 2
    /\ \E i \in 1..Len(server.items) :
          /\ server.items[i].type = "Episode"
          /\ IsNone(server.items[i].id)
          /\ Under(server, server.items[i], call.item.id)

\* a played movie
C22_WitnessMovie ==
    /\ HistoryAsked
    /\ call.item.type = "Movie"
    /\ result.kind = "return"
    /\ Len(result.value) = 1

\* a played movie the server gives no id
C22_WitnessNoId ==
    /\ HistoryAsked
    /\ IsNone(call.item.id)
    /\ HasLastPlayed(call.item)
    /\ result = Return(<<>>)


ContinueWatchingAsked == call.op = "is_on_continue_watching"

\* the client has a session: its API handles and a user id
HasSession == client.api /\ ~IsNone(client.user_id)

\* the series the Next Up list is to be asked for, None when there is none
AskedSeries ==
    CASE call.item.type = "Series" -> call.item.id
      [] call.item.type \in {"Season", "Episode"} -> call.item.series_id
      [] OTHER -> PyNone

\* C23: is_on_continue_watching asks the Next Up list once, for the item's
\* own id when it is a Series and for its series_id when it is a Season or
\* Episode, and answers true exactly when the response holds an item; for an
\* item without a series id it answers false without asking the server.
C23_ContinueWatchingAsksNextUp ==
    (ContinueWatchingAsked /\ HasSession) =>
        /\ ~IsNone(AskedSeries) =>
              /\ Len(queries) = 1
              /\ queries[1].api = "get_next_up"
              /\ queries[1].series_id = AskedSeries
              /\ queries[1].user_id = client.user_id
              /\ result = Return(TRUE)
                    <=> (call.fault = "none" /\ AskedSeries \in server.next_up)
              /\ call.fault = "none" => result.kind = "return"
        /\ IsNone(AskedSeries) =>
              /\ queries = <<>>
              /\ result = Return(FALSE)

\* an episode whose series is on the Next Up list
C23_Witness ==
    /\ ContinueWatchingAsked
    /\ HasSession
    /\ call.item.type = "Episode"
    /\ call.fault = "none"
    /\ result = Return(TRUE)
    /\ queries # <<>>
    /\ queries[1].series_id # call.item.id

\* a series that is not on the Next Up list
C23_WitnessAbsent ==
    /\ ContinueWatchingAsked
    /\ HasSession
    /\ call.item.type = "Series"
    /\ call.fault = "none"
    /\ result = Return(FALSE)
    /\ Len(queries) = 1

\* a movie, and a season that names no series
C23_WitnessUnasked ==
    /\ ContinueWatchingAsked
    /\ HasSession
    /\ call.item.type \in {"Movie", "Season"}
    /\ server.next_up # {}
    /\ result = Return(FALSE)
    /\ queries = <<>>


----------------------------------------------------------------------------
(* library.py and client.py: construction *)

\* the keyword arguments JellyfinClient.__init__ requires
ClientRequiredKeywords == {"logger", "url", "token", "user"}

\* the members of an optional list, as a set
MembersOf(v) == {ListOrEmpty(v)[i] : i \in 1..Len(ListOrEmpty(v))}

\* JellyfinClient(**kwargs): a call without a required keyword is a TypeError
JellyfinClientInit(kwargs) ==
    IF \E name \in ClientRequiredKeywords :
           ~\E i \in 1..Len(kwargs) : kwargs[i][1] = name
    THEN Raise("TypeError")
    ELSE Return(ClientNew(StrOf(MapGet(kwargs, "user")),
                          MembersOf(MapGet(kwargs, "section_filter")),
                          MembersOf(MapGet(kwargs, "genre_filter"))))

\* JellyfinLibraryProvider._create_client
CreateClient(url, token, user, section_filter, genre_filter) ==
    JellyfinClientInit(<< <<"url", url>>, <<"token", token>>, <<"user", user>>,
                          <<"section_filter", section_filter>>,
                          <<"genre_filter", genre_filter>> >>)

\* `config or {}`
ConfigOrEmpty(config) == IF IsNone(config) THEN <<>> ELSE config.pairs

\* `list(config.get(key) or [])`
ListOf(v) == IF Truthy(v) /\ v.t = "list" /\ v.items # <<>> THEN v ELSE PyList(<<>>)

\* __init__, lines 451-459, with the client _create_client gave
Constructed(cfg, created) ==
    IF created.kind = "raise"
    THEN [provider |-> PyNone, client |-> PyNone, outcome |-> created]
    ELSE [provider |-> ProviderNew(cfg), client |-> created.value,
          outcome |-> Return(PyNone)]

\* JellyfinLibraryProvider.__init__ on the mapping of its configuration
ConstructWith(cfg) ==
    IF \/ ~Truthy(PyOr(MapGet(cfg, "url"), PyStr(<<>>)))
       \/ ~Truthy(PyOr(MapGet(cfg, "token"), PyStr(<<>>)))
       \/ ~Truthy(PyOr(MapGet(cfg, "user"), PyStr(<<>>)))
    THEN [provider |-> PyNone, client |-> PyNone, outcome |-> Raise("ValueError")]
    ELSE Constructed(cfg,
                     CreateClient(PyStr(StrOf(MapGet(cfg, "url"))),
                                  PyStr(StrOf(MapGet(cfg, "token"))),
                                  PyStr(StrOf(MapGet(cfg, "user"))),
                                  ListOf(MapGet(cfg, "sections")),
                                  ListOf(MapGet(cfg, "genres"))))

\* JellyfinLibraryProvider(config=config)
ProviderConstruct(config) == ConstructWith(ConfigOrEmpty(config))

----------------------------------------------------------------------------
(* Constructing the provider *)

S_url == <<"h", "t", "t", "p", ":", "/", "/", "j">>
S_token == <<"t", "o", "k", "e", "n">>
S_demo == <<"d", "e", "m", "o">>

\* a key of the configuration: absent, empty or given
Setting(key, value) ==
    { <<>>, << <<key, PyStr(<<>>)>> >>, << <<key, PyStr(value)>> >> }

\* the configurations a host can hand over: none at all, and mappings that
\* hold, leave out or leave empty each of 'url', 'token' and 'user'
Configurations ==
    { PyNone }
    \cup
    { PyDictOf(url \o token \o user \o strict \o sections) :
        url \in Setting("url", S_url),
        token \in Setting("token", S_token),
        user \in Setting("user", S_demo),
        strict \in { <<>>, << <<"strict", PyBool(FALSE)>> >> },
        sections \in { <<>>, << <<"sections", PyList(<<S_Shows>>)>> >> } }

\* provider = JellyfinLibraryProvider(config=config)
Construct(config) ==
    /\ Idle
    /\ call' = [op |-> "construct", config |-> config]
    /\ provider' = ProviderConstruct(config).provider
    /\ client' = ProviderConstruct(config).client
    /\ result' = ProviderConstruct(config).outcome
    /\ UNCHANGED <<server, queries>>

\* the host drops the reference it holds, if any
Discard ==
    /\ ~Idle
    /\ call' = NoCall
    /\ result' = NoResult
    /\ provider' = PyNone
    /\ client' = PyNone
    /\ UNCHANGED <<server, queries>>

InitConstruct ==
    /\ server = DefaultServer
    /\ client = PyNone
    /\ provider = PyNone
    /\ call = NoCall
    /\ result = NoResult
    /\ queries = <<>>

NextConstruct ==
    \/ \E config \in Configurations : Construct(config)
    \/ Discard

SpecConstruct == InitConstruct /\ [][NextConstruct]_vars

----------------------------------------------------------------------------
(* Properties of the construction *)

ConstructAsked == call.op = "construct"

\* the configuration holds a value for the key that is not empty
Given3(key) ==
    /\ ~IsNone(call.config)
    /\ \E i \in 1..Len(call.config.pairs) :
          /\ call.config.pairs[i][1] = key
          /\ call.config.pairs[i][2] # PyStr(<<>>)

\* C24: constructing the provider succeeds, with a client, no user and no
\* sections, whenever 'url', 'token' and 'user' are given and not empty, and
\* raises ValueError when one of them is missing or empty.
C24_Construction ==
    ConstructAsked =>
        IF Given3("url") /\ Given3("token") /\ Given3("user")
        THEN /\ result = Return(PyNone)
             /\ ~IsNone(client)
             /\ ~IsNone(provider)
             /\ IsNone(provider.user)
             /\ provider.sections = <<>>
        ELSE result = Raise("ValueError")


----------------------------------------------------------------------------
(* Properties of the client's session *)

NotInitialized == Raise("RuntimeError")

\* every operation that needs a session refuses, and there are no sections
Refusing ==
    /\ ClientUserId(client) = NotInitialized
    /\ ClientUserName(client) = NotInitialized
    /\ ListShowSeasons(client, server, Uuid(6), {}).outcome = NotInitialized
    /\ ListShowEpisodes(client, server, Uuid(6), PyNone, {}).outcome = NotInitialized
    /\ ClientGetItem(client, server, Uuid(6)) = NotInitialized
    /\ \A item \in HostItems(server) :
          IsOnContinueWatchingResult(client, server, item, "none").outcome = NotInitialized
    /\ \A section \in HostSections :
          ListSectionItemsResult(client, server, section, PyNone, FALSE, PyNone, {}).outcome
              = NotInitialized
    /\ client.sections = <<>>

\* close() has cleared the API handles, the user, the sections and the fetchers
Cleared ==
    /\ ~client.api
    /\ IsNone(client.user_id)
    /\ IsNone(client.user_name)
    /\ client.sections = <<>>
    /\ client.fetchers = <<>>

InitializeCompleted == call.op = "initialize" /\ result = Return(PyNone)

\* C25: as long as the client has not completed an initialize() since its
\* construction or its last close(), user_id(), user_name(),
\* list_show_seasons, list_show_episodes, get_item, is_on_continue_watching
\* and list_section_items raise RuntimeError and sections() is empty: the
\* client starts so, is so after every close(), and stays so through every
\* step that is not a completed initialize(); close() clears every field.
C25_UninitializedRefuses ==
    /\ Refusing
    /\ [][/\ (Refusing /\ ~InitializeCompleted') => Refusing'
          /\ call'.op = "close" => (Cleared' /\ Refusing')]_vars


----------------------------------------------------------------------------
(* client.py: initialize step by step, with close() on the event loop *)

\* initialize() is in flight at the step `pc`.  Each asyncio.to_thread step
\* is two moves: the worker thread runs the function on the client as it is
\* then, and the coroutine resumes with what the thread gave (`held`).
InFlight(pc) == call.op = "client.initialize" /\ call.pc = pc

\* the coroutine goes on to its next step
Goes(pc, held) == call' = [call EXCEPT !.pc = pc, !.held = held]

\* the exception of a worker thread ends initialize()
Fails(outcome) ==
    /\ Goes("done", PyNone)
    /\ result' = outcome

\* what a worker thread gave: its exception ends initialize(), its value is
\* held until the coroutine resumes
Gave(outcome, pc) ==
    IF outcome.kind = "raise" THEN Fails(outcome)
    ELSE Goes(pc, outcome.value) /\ UNCHANGED result

\* a task calls initialize(): line 114 hands _configure_client to a thread
BeginInitialize ==
    /\ Idle
    /\ call' = [op |-> "client.initialize", pc |-> "configure", held |-> PyNone,
                closed |-> FALSE]
    /\ UNCHANGED <<server, client, provider, result, queries>>

\* line 114: the thread sets the API handles; line 115 hands over _resolve_user
ConfigureThread ==
    /\ InFlight("configure")
    /\ client' = ConfigureClient(client)
    /\ Goes("resolve", PyNone)
    /\ UNCHANGED <<server, provider, result, queries>>

\* line 115: the thread runs _resolve_user
ResolveThread ==
    /\ InFlight("resolve")
    /\ Gave(ResolveUser(client, server.users), "resolved")
    /\ UNCHANGED <<server, client, provider, queries>>

\* lines 117-119: the coroutine stores the user and hands over _load_sections
ResolvedResume ==
    /\ InFlight("resolved")
    /\ client' = [client EXCEPT !.user_id = call.held.id,
                                !.user_name = PyOr(call.held.name,
                                                   PyStr(StrOf(call.held.id)))]
    /\ Goes("sections", PyNone)
    /\ UNCHANGED <<server, provider, result, queries>>

\* line 119: the thread runs _load_sections
SectionsThread ==
    /\ InFlight("sections")
    /\ Gave(LoadSections(client, server.views), "loaded")
    /\ UNCHANGED <<server, client, provider, queries>>

\* lines 119-122: the coroutine stores the sections and hands over
\* _load_show_metadata_fetchers
SectionsResume ==
    /\ InFlight("loaded")
    /\ client' = [client EXCEPT !.sections = call.held]
    /\ Goes("fetchers", PyNone)
    /\ UNCHANGED <<server, provider, result, queries>>

\* lines 120-122: the thread runs _load_show_metadata_fetchers
FetchersThread ==
    /\ InFlight("fetchers")
    /\ Gave(LoadShowMetadataFetchers(client, server.folders), "fetched")
    /\ UNCHANGED <<server, client, provider, queries>>

\* lines 120-122: the coroutine stores the fetcher map; initialize() returns
FetchersResume ==
    /\ InFlight("fetched")
    /\ client' = [client EXCEPT !.fetchers = call.held]
    /\ Goes("done", PyNone)
    /\ result' = Return(PyNone)
    /\ UNCHANGED <<server, provider, queries>>

\* another task runs client.close() while initialize() awaits a thread;
\* close() has no await of its own, so it runs in one piece
CloseMeanwhile ==
    /\ call.op = "client.initialize"
    /\ call.pc # "done"
    /\ ~call.closed
    /\ client' = ClientClose(client)
    /\ call' = [call EXCEPT !.closed = TRUE]
    /\ UNCHANGED <<server, provider, result, queries>>

\* client.close() while nothing is in flight
CloseIdle ==
    /\ Idle
    /\ client' = ClientClose(client)
    /\ call' = [op |-> "client.close"]
    /\ result' = Return(PyNone)
    /\ UNCHANGED <<server, provider, queries>>

\* the tasks have finished and the host goes on
Finished ==
    /\ call.op = "client.close" \/ InFlight("done")
    /\ HostReturn

InitRace ==
    /\ \E users \in UserLists : server = [DefaultServer EXCEPT !.users = users]
    /\ \E user \in SetupUsers : client = ClientNew(user, {}, {})
    /\ provider = ProviderNew(<<>>)
    /\ call = NoCall
    /\ result = NoResult
    /\ queries = <<>>

NextRace ==
    \/ BeginInitialize
    \/ ConfigureThread
    \/ ResolveThread
    \/ ResolvedResume
    \/ SectionsThread
    \/ SectionsResume
    \/ FetchersThread
    \/ FetchersResume
    \/ CloseMeanwhile
    \/ CloseIdle
    \/ Finished

SpecRace == InitRace /\ [][NextRace]_vars

\* the client holds session data without its API handles
HalfCleared ==
    /\ ~client.api
    /\ \/ ~IsNone(client.user_id)
       \/ client.sections # <<>>
       \/ client.fetchers # <<>>

\* C29: when close() has run between the awaited steps of an initialize(),
\* then once both have finished the client is never left with a user id,
\* sections or a fetcher map while its API handles are None.
C29_CloseDuringInitialize ==
    (InFlight("done") /\ call.closed) => ~HalfCleared


----------------------------------------------------------------------------
(* client.py, library.py: the user after a failed initialize *)

\* user_id() and user_name() both raise RuntimeError
Unreported ==
    /\ ClientUserId(client) = NotInitialized
    /\ ClientUserName(client) = NotInitialized

InitializeFailed == call.op = "initialize" /\ result.kind = "raise"

\* C28: user_id() and user_name() return a value only if an initialize() has
\* run to completion since the construction or the last close(): they raise
\* at the start and keep raising through every step that is not a completed
\* initialize(); an initialize() that fails, at whichever step, leaves the
\* client reporting uninitialized and the provider's user unset.
C28_UserOnlyAfterCompletedInitialize ==
    /\ Unreported
    /\ [][/\ (Unreported /\ ~InitializeCompleted') => Unreported'
          /\ InitializeFailed' => (Unreported' /\ IsNone(provider'.user))]_vars


----------------------------------------------------------------------------
(* client.py: virtual folders of other collection types *)

\* item ids a folder that is not a TV-shows folder may carry: a UUID, none,
\* an empty text, a text that is no UUID
OtherFolderIds == {PyStr(<<"a", "4">>), PyNone, PyStr(<<>>), PyStr(<<"z", "z">>)}

OtherCollectionTypes == {"movies", "music"}

\* a folder of another collection type, with series fetchers of its own
OtherFolder(item_id, collection_type) ==
    Folder(item_id, collection_type,
           LibraryOptions(PyList(<<FetcherOption("Series", PyNone,
                                                 PyList(<<"AniDB">>))>>)))

\* the TV-shows folders of a server
ShowFolderLists ==
    { << Folder(PyStr(<<"A", "3">>), "tvshows", LibraryOptions(type_options)),
         Folder(PyStr(<<"a", "c">>), "tvshows", second) >> :
        type_options \in { PyList(<<FetcherOption("Series", PyList(<<"AniDB", "AniList">>),
                                                  PyList(<<"AniList">>))>>),
                           PyList(<<FetcherOption("Series", PyNone,
                                                  PyList(<<"TheTVDB">>))>>),
                           PyNone },
        second \in { PyNone,
                     LibraryOptions(PyList(<<FetcherOption("Series", PyNone,
                                                           PyList(<<"AniList">>))>>)) } }

\* `folder` put after the first `at` folders
FolderInserted(folders, folder, at) ==
    SubSeq(folders, 1, at) \o <<folder>> \o SubSeq(folders, at + 1, Len(folders))

MixedFolderLists ==
    ShowFolderLists
    \cup { FolderInserted(folders, OtherFolder(item_id, collection_type), at) :
             folders \in ShowFolderLists, item_id \in OtherFolderIds,
             collection_type \in OtherCollectionTypes, at \in 0..2 }

\* the folders of get_virtual_folders that are TV-shows folders
ShowFoldersOf(folders) ==
    SelectSeq(folders, LAMBDA folder : folder.collection_type = "tvshows")

\* _load_show_metadata_fetchers is run on the client as it is
ShowMetadataFetchersLoaded ==
    /\ Idle
    /\ call' = [op |-> "load_show_metadata_fetchers"]
    /\ result' = LoadShowMetadataFetchers(client, server.folders)
    /\ UNCHANGED <<server, client, provider, queries>>

\* the administrator changes the libraries of the server
FoldersChange(folders) ==
    /\ Idle
    /\ folders # server.folders
    /\ server' = [server EXCEPT !.folders = folders]
    /\ UNCHANGED <<client, provider, call, result, queries>>

InitFolders ==
    /\ \E folders \in MixedFolderLists :
          server = [DefaultServer EXCEPT !.folders = folders]
    /\ \E user \in ConfigUsers : client = ClientNew(user, {}, {})
    /\ provider = ProviderNew(<<>>)
    /\ call = NoCall
    /\ result = NoResult
    /\ queries = <<>>

NextFolders ==
    \/ \E fault \in Faults : Initialize(fault)
    \/ Close
    \/ ShowMetadataFetchersLoaded
    \/ \E folders \in MixedFolderLists : FoldersChange(folders)
    \/ HostReturn

SpecFolders == InitFolders /\ [][NextFolders]_vars

\* the server with its TV-shows folders only
ShowFoldersOnly == [server EXCEPT !.folders = ShowFoldersOf(server.folders)]

\* C30: the fetcher map depends on the TV-shows folders only: with folders of
\* other collection types among them, whatever their item ids,
\* _load_show_metadata_fetchers gives what it gives for the TV-shows folders
\* alone, and initialize() ends as it ends on a server that has the TV-shows
\* folders only.
C30_OtherFoldersIgnored ==
    /\ (call.op = "load_show_metadata_fetchers")
          => result = LoadShowMetadataFetchers(client, ShowFoldersOf(server.folders))
    /\ [][call'.op = "initialize"
            => Initialized(ProviderInitialize(provider, client, ShowFoldersOnly,
                                              call'.fault))]_vars


----------------------------------------------------------------------------
(* library.py: the provider's user across initialize and close *)

\* user() returns None and get_sections() the empty tuple
NoSession ==
    /\ IsNone(provider.user)
    /\ provider.sections = <<>>

\* C26: user() returns a user only between a successful initialize() and the
\* next close(): there is no user and no section at the start, none after a
\* close(), and none through every step that is not a completed initialize();
\* a PlaybackStop or UserDataSaved webhook received then is answered
\* (False, ()).
C26_UserBetweenInitializeAndClose ==
    /\ NoSession
    /\ []((NoSession /\ ParseWebhookCalled /\ UserEvent) => result = Ignored)
    /\ [][/\ call'.op = "close" => NoSession'
          /\ (NoSession /\ ~InitializeCompleted') => NoSession']_vars


----------------------------------------------------------------------------
(* library.py: the section maps across initialize and close *)

\* the views of a server whose libraries are added and removed
SessionViewLists ==
    ViewLists \cup { <<View(Uuid(4), PyStr(<<"M", "o", "v", "i", "e", "s">>), "movies")>>,
                     <<>> }

\* the keys of a mapping
MapKeys(mapping) == { mapping[i][1] : i \in 1..Len(mapping) }

\* the keys of the sections of a list
SectionKeys(sections) == { sections[i].key : i \in 1..Len(sections) }

\* the administrator adds and removes libraries
ViewsChange(views) ==
    /\ Idle
    /\ views # server.views
    /\ server' = [server EXCEPT !.views = views]
    /\ UNCHANGED <<client, provider, call, result, queries>>

\* provider.initialize(); the host remembers the section keys it had
SessionInitialize(fault) ==
    /\ Idle
    /\ Initialized(ProviderInitialize(provider, client, server, fault))
    /\ call' = [op |-> "initialize", fault |-> fault,
                had |-> MapKeys(provider.section_map)]
    /\ UNCHANGED <<server, queries>>

InitSessions ==
    /\ \E views \in SessionViewLists, folders \in ShowFolderLists :
          server = [DefaultServer EXCEPT !.views = views, !.folders = folders]
    /\ \E user \in ConfigUsers, section_filter \in SectionFilters :
          client = ClientNew(user, section_filter, {})
    /\ provider = ProviderNew(<<>>)
    /\ call = NoCall
    /\ result = NoResult
    /\ queries = <<>>

NextSessions ==
    \/ \E fault \in Faults : SessionInitialize(fault)
    \/ Close
    \/ \E views \in SessionViewLists : ViewsChange(views)
    \/ GetSections
    \/ HostReturn

SpecSessions == InitSessions /\ [][NextSessions]_vars

\* the keys of the SHOW sections of the provider
ShowSectionKeys ==
    { provider.sections[i].key :
        i \in { j \in 1..Len(provider.sections) : provider.sections[j].media_kind = "SHOW" } }

\* the keys of the views the client selects now
SelectedKeys ==
    { UuidStr(SelectSeq(server.views, Selected)[i].id) :
        i \in 1..Len(SelectSeq(server.views, Selected)) }

\* C27: through every sequence of initialize() and close() the keys of the
\* section map are the keys of the section list and the keys of the strict
\* map are keys of SHOW sections; an initialize() that completes leaves the
\* keys of the views selected now, one map entry each, whatever the maps held
\* before; until the first completed initialize() get_sections() returns the
\* empty tuple.
C27_SectionMapsFollowSections ==
    /\ [](/\ MapKeys(provider.section_map) = SectionKeys(provider.sections)
          /\ MapKeys(provider.strict_map) \subseteq ShowSectionKeys
          /\ InitializedNow =>
                /\ MapKeys(provider.section_map) = SelectedKeys
                /\ Len(provider.section_map) = Len(provider.sections)
                /\ Len(provider.strict_map) = Cardinality(MapKeys(provider.strict_map))
          /\ call.op = "get_sections" => result = Return(provider.sections))
    /\ provider.sections = <<>>
    /\ [][(provider.sections = <<>> /\ ~InitializedNow') => provider'.sections = <<>>]_vars

\* an initialize() without a close() before it completes on a provider that
\* had a section the server no longer shows, and a strict entry is recorded
C27_Witness ==
    /\ InitializedNow
    /\ call.had \ SelectedKeys # {}
    /\ provider.strict_map # <<>>
    /\ Len(provider.sections) >= 2

\* get_sections() before any initialize() has completed
C27_WitnessBefore ==
    /\ call.op = "get_sections"
    /\ IsNone(provider.user)
    /\ result = Return(<<>>)

\* close() has emptied the maps of an initialized provider
C27_WitnessClosed ==
    /\ call.op = "close"
    /\ ~IsNone(provider.user)
    /\ provider.section_map = <<>>
    /\ provider.strict_map = <<>>

====
